---------------------------- MODULE Spec2Model ----------------------------
(***************************************************************************)
(* Model of the calendar-grid layout and activity-aggregation engine of    *)
(* gh-heatmap: the backend GitHubAggregator (aggregateByDate, the summary  *)
(* helpers, aggregateCombined), the frontend mergeActivityData, and the    *)
(* grid builders generateHeatmapSVG and Calendar.buildGrid.                *)
(*                                                                         *)
(* Representation.                                                         *)
(*   - A date string "YYYY-MM-DD" is the triple <<y, m, d>> of its three   *)
(*     numeric fields; comparing two such fixed-width strings character by *)
(*     character (localeCompare) is comparing the triples field by field.  *)
(*     The empty string is <<0, 0, 0>>.                                    *)
(*   - A JavaScript Date at midnight UTC is the number of days since       *)
(*     1970-01-01 (its time value divided by 86400000).                    *)
(*   - A number with one decimal (averageCommitsPerDay) is held in tenths. *)
(***************************************************************************)
EXTENDS Integers, Sequences, FiniteSets, TLC

VARIABLES
    query,      \* QueryOptions of the aggregator call: startDate, endDate
    commits,    \* the raw commits the GitHub API returns for that query
    data,       \* ActivityData[] returned by aggregateActivity
    summary,    \* ActivitySummary returned by getActivitySummary
    pc,         \* which operation has completed
    allData,    \* aggregateCombined: the per-query series (Promise.all result)
    combined,   \* aggregateCombined / mergeActivityData result
    opts,       \* grid options: startDate, endDate, weekStart
    gdata,      \* ActivityData[] handed to the grid builders
    svg,        \* generateHeatmapSVG: weeks, cells, maxCount, totalCount
    dom,        \* Calendar.buildGrid: the week columns of day cells
    util,       \* a call of the date utilities: its argument and its outcome
    thrown,     \* the message of the Error an operation threw, "" if none
    cache,      \* a MemoryCache, the clock it reads, and what was written to it
    fetch,      \* a call of fetchPublicCommits: its loop variables and outcome
    http,       \* the response of the Express handler to GET /activity
    agg,        \* a GitHubAggregator: its cache, its RateLimiter, its calls
    fcal,       \* the Calendar of packages/frontend: its grid and month labels
    hm          \* a Heatmap component: its container, its data, its load calls

coreVars == <<query, commits, data, summary, pc, allData, combined, opts, gdata, svg, dom>>

\* the state of the backend service
lateVars == <<agg, fcal, hm>>

\* all but the Heatmap component
notHm == <<query, commits, data, summary, pc, allData, combined, opts, gdata, svg, dom,
           util, thrown, cache, fetch, http, agg, fcal>>

\* the state of the components around the engine
extraVars == <<util, thrown, cache, fetch, http, lateVars>>

earlyVars == <<util, thrown, cache, fetch, http>>

coreVarsButPc == <<query, commits, data, summary, allData, combined, opts, gdata, svg, dom>>

vars == <<coreVars, extraVars>>

-----------------------------------------------------------------------------
(* Bounds of the model. *)

\* most commits in one API response
MaxCommits == 3
\* longest aggregator range, in days after its start
MaxSpan == 3
\* largest count of one entry of a series to be merged
MaxMergeCount == 2
\* longest grid range, in days after its start
MaxGridSpan == 9
\* largest count of one entry handed to a grid builder
MaxCount == 8
\* latest start of a labelled range, in days after 2024-01-18
MaxLabelStart == 13
\* longest labelled range, in days after its start
MaxLabelSpan == 49
\* most operations on one cache, the passing of time included
MaxCacheOps == 5
\* most commits of a response whose commits carry their private fields
MaxPrivCommits == 2
\* aggregateActivity calls on one aggregator
MaxAggCalls == 3
\* aggregateActivity calls that have not ended
MaxInFlight == 2
\* pages the repository's history fills
MaxAggPages == 2
\* times the clock is read at a later instant
MaxAggTicks == 2

\* load calls made on one Heatmap component
MaxLoads == 2

-----------------------------------------------------------------------------
(* Generic helpers. *)

Max(a, b) == IF a >= b THEN a ELSE b

RECURSIVE SumSeq(_)
SumSeq(s) == IF s = <<>> THEN 0 ELSE Head(s) + SumSeq(Tail(s))

RECURSIVE MaxSeq(_, _)
\* Math.max(...s, floor)
MaxSeq(s, floor) == IF s = <<>> THEN floor ELSE MaxSeq(Tail(s), Max(floor, Head(s)))

Counts(series) == [i \in 1..Len(series) |-> series[i].count]

SeqsUpTo(S, n) == UNION {[1..k -> S] : k \in 0..n}

-----------------------------------------------------------------------------
(* Dates. *)

EmptyStr == <<0, 0, 0>>

\* a.localeCompare(b) < 0 on date strings
StrLess(a, b) ==
    \/ a[1] < b[1]
    \/ a[1] = b[1] /\ a[2] < b[2]
    \/ a[1] = b[1] /\ a[2] = b[2] /\ a[3] < b[3]

IsLeap(y) == (y % 4 = 0 /\ y % 100 # 0) \/ y % 400 = 0

DaysInMonth(y, m) ==
    IF m = 2 THEN (IF IsLeap(y) THEN 29 ELSE 28)
    ELSE IF m \in {4, 6, 9, 11} THEN 30 ELSE 31

\* the string names a real calendar day
IsRealDate(s) ==
    /\ s[1] \in 1..9999
    /\ s[2] \in 1..12
    /\ s[3] \in 1..DaysInMonth(s[1], s[2])

\* new Date(s + 'T00:00:00Z') for a string that names a real day: days since
\* 1970-01-01 in the proleptic Gregorian calendar
ParseUTC(s) ==
    LET y   == IF s[2] <= 2 THEN s[1] - 1 ELSE s[1]
        era == y \div 400
        yoe == y - era * 400
        mp  == IF s[2] > 2 THEN s[2] - 3 ELSE s[2] + 9
        doy == (153 * mp + 2) \div 5 + s[3] - 1
        doe == yoe * 365 + yoe \div 4 - yoe \div 100 + doy
    IN  era * 146097 + doe - 719468

\* date.toISOString().split('T')[0] for a Date at midnight UTC
ToISODate(n) ==
    LET z   == n + 719468
        era == z \div 146097
        doe == z - era * 146097
        yoe == (doe - doe \div 1460 + doe \div 36524 - doe \div 146096) \div 365
        doy == doe - (365 * yoe + yoe \div 4 - yoe \div 100)
        mp  == (5 * doy + 2) \div 153
        d   == doy - (153 * mp + 2) \div 5 + 1
        m   == IF mp < 10 THEN mp + 3 ELSE mp - 9
        y   == yoe + era * 400 + (IF m <= 2 THEN 1 ELSE 0)
    IN  <<y, m, d>>

\* date.getUTCDay(): 0 = Sunday; 1970-01-01 was a Thursday
GetUTCDay(n) == (n + 4) % 7

-----------------------------------------------------------------------------
(* Map<string, number>: the entries in insertion order. *)

MapHas(m, k) == \E i \in 1..Len(m) : m[i].date = k

\* m.get(k) || 0
MapGetOr0(m, k) ==
    IF MapHas(m, k) THEN m[CHOOSE i \in 1..Len(m) : m[i].date = k].count ELSE 0

\* m.set(k, v): an existing key keeps its position
MapSet(m, k, v) ==
    IF MapHas(m, k)
    THEN [i \in 1..Len(m) |-> IF m[i].date = k THEN [date |-> k, count |-> v] ELSE m[i]]
    ELSE Append(m, [date |-> k, count |-> v])

RECURSIVE InsertByDate(_, _)
InsertByDate(sorted, e) ==
    IF sorted = <<>> THEN <<e>>
    ELSE IF StrLess(e.date, Head(sorted).date) THEN <<e>> \o sorted
    ELSE <<Head(sorted)>> \o InsertByDate(Tail(sorted), e)

RECURSIVE SortByDate(_)
\* Array.from(map.entries()).map(...).sort((a, b) => a.date.localeCompare(b.date))
SortByDate(entries) ==
    IF entries = <<>> THEN <<>>
    ELSE InsertByDate(SortByDate(SubSeq(entries, 1, Len(entries) - 1)),
                      entries[Len(entries)])

-----------------------------------------------------------------------------
(* GitHubAggregator. *)

\* commit.commit?.author?.date is undefined or ''
Missing == [kind |-> "missing", d |-> EmptyStr, t |-> ""]

\* dateStr.split('T')[0]
SplitT0(ts) == ts.d

RECURSIVE AggregateLoopDistinct(_, _)
\* the loop counting a commit hash once: a commit is passed over when a later
\* commit of the list has its sha
AggregateLoopDistinct(cs, activityMap) ==
    IF cs = <<>> THEN activityMap
    ELSE LET dateStr == Head(cs).date
             again   == /\ "sha" \in DOMAIN Head(cs)
                        /\ \E i \in 2..Len(cs) : cs[i].sha = Head(cs).sha
         IN  IF dateStr.kind = "missing" \/ again
             THEN AggregateLoopDistinct(Tail(cs), activityMap)
             ELSE LET date == SplitT0(dateStr)
                  IN  AggregateLoopDistinct(Tail(cs),
                        MapSet(activityMap, date, MapGetOr0(activityMap, date) + 1))

RECURSIVE AggregateLoop(_, _)
AggregateLoop(cs, activityMap) ==
    IF cs = <<>> THEN activityMap
    ELSE LET dateStr == Head(cs).date
         IN  IF dateStr.kind = "missing"
             THEN AggregateLoop(Tail(cs), activityMap)
             ELSE LET date == SplitT0(dateStr)
                  IN  AggregateLoop(Tail(cs),
                        MapSet(activityMap, date, MapGetOr0(activityMap, date) + 1))

aggregateByDate(cs) == SortByDate(AggregateLoop(cs, <<>>))

RECURSIVE LongestLoop(_, _, _)
LongestLoop(s, longest, current) ==
    IF s = <<>> THEN longest
    ELSE IF Head(s).count > 0
         THEN LongestLoop(Tail(s), Max(longest, current + 1), current + 1)
         ELSE LongestLoop(Tail(s), longest, 0)

calculateLongestStreak(s) == LongestLoop(s, 0, 0)

RECURSIVE CurrentLoop(_, _, _)
CurrentLoop(s, i, streak) ==
    IF i >= 1 /\ s[i].count > 0 THEN CurrentLoop(s, i - 1, streak + 1) ELSE streak

calculateCurrentStreak(s) == CurrentLoop(s, Len(s), 0)

\* Math.round(x) for x = num / den >= 0
RoundDiv(num, den) == (2 * num + den) \div (2 * den)

\* the average without the length test: 0 / 0 is NaN, held as -1
calculateAverageNoGuard(s) ==
    IF Len(s) = 0 THEN -1 ELSE RoundDiv(SumSeq(Counts(s)) * 10, Len(s))

\* Math.round((total / data.length) * 10) / 10, in tenths
calculateAverage(s) ==
    IF Len(s) = 0 THEN 0 ELSE RoundDiv(SumSeq(Counts(s)) * 10, Len(s))

RECURSIVE ReduceMax(_, _)
ReduceMax(s, max) ==
    IF s = <<>> THEN max
    ELSE ReduceMax(Tail(s), IF Head(s).count > max.count THEN Head(s) ELSE max)

RECURSIVE ReduceMaxLast(_, _)
ReduceMaxLast(s, max) ==
    IF s = <<>> THEN max
    ELSE ReduceMaxLast(Tail(s), IF Head(s).count >= max.count THEN Head(s) ELSE max)

\* the reduce with >= in place of >: the last of the tied days wins
findMostActiveDayLast(s) ==
    IF Len(s) = 0 THEN [date |-> EmptyStr, count |-> 0]
    ELSE ReduceMaxLast(s, [date |-> EmptyStr, count |-> 0])

findMostActiveDay(s) ==
    IF Len(s) = 0 THEN [date |-> EmptyStr, count |-> 0]
    ELSE ReduceMax(s, [date |-> EmptyStr, count |-> 0])

Summarize(s) ==
    [ totalCommits         |-> SumSeq(Counts(s)),
      activeDays           |-> Cardinality({i \in 1..Len(s) : s[i].count > 0}),
      longestStreak        |-> calculateLongestStreak(s),
      currentStreak        |-> calculateCurrentStreak(s),
      averageCommitsPerDay |-> calculateAverage(s),
      mostActiveDay        |-> findMostActiveDay(s) ]

NoSummary ==
    [ totalCommits |-> -1, activeDays |-> -1, longestStreak |-> -1,
      currentStreak |-> -1, averageCommitsPerDay |-> -1,
      mostActiveDay |-> [date |-> EmptyStr, count |-> -1] ]

\* isValidDateRange(options.startDate, options.endDate)
isValidDateRange(start, end) == ParseUTC(start) <= ParseUTC(end)

\* /^[a-zA-Z0-9._-]+\/[a-zA-Z0-9._-]+$/.test(repo), on the repository names the
\* queries of the model use
isValidRepositoryFormat(repo) == repo \in {"octo/heat", "octo/docs"}

\* validateQueryOptions: the message of the Error it throws, "" if it returns
validateQueryOptions(options) ==
    IF options.startDate = EmptyStr \/ options.endDate = EmptyStr
    THEN "startDate and endDate are required"
    ELSE IF ~isValidDateRange(options.startDate, options.endDate)
         THEN "startDate must be before endDate"
         ELSE IF /\ "repository" \in DOMAIN options
                 /\ options.repository # ""
                 /\ ~isValidRepositoryFormat(options.repository)
              THEN "Repository must be in format \"owner/repo\""
              ELSE ""

\* aggregateActivity when validateQueryOptions throws: the Error leaves the
\* method before the cache is read and before anything is fetched
AggregateActivityRejected ==
    /\ pc = "idle"
    /\ validateQueryOptions(query) # ""
    /\ thrown' = validateQueryOptions(query)
    /\ pc' = "rejected"
    /\ UNCHANGED <<coreVarsButPc, util, cache, fetch, http, lateVars>>

\* aggregateActivity on a cache miss: validate, fetch, aggregate
AggregateActivity ==
    /\ pc = "idle"
    /\ isValidDateRange(query.startDate, query.endDate)
    /\ data' = aggregateByDate(commits)
    /\ pc' = "aggregated"
    /\ UNCHANGED <<query, commits, summary, allData, combined, opts, gdata, svg, dom, extraVars>>

\* getActivitySummary: aggregateActivity, then the six statistics
GetActivitySummary ==
    /\ pc = "idle"
    /\ isValidDateRange(query.startDate, query.endDate)
    /\ data' = aggregateByDate(commits)
    /\ summary' = Summarize(data')
    /\ pc' = "summarized"
    /\ UNCHANGED <<query, commits, allData, combined, opts, gdata, svg, dom, extraVars>>

\* getActivitySummary when aggregateActivity finds the series in the cache
\* (if (cached) return cached): the statistics of the cached series
GetActivitySummaryCached ==
    /\ pc = "idle"
    /\ isValidDateRange(query.startDate, query.endDate)
    /\ summary' = Summarize(data)
    /\ pc' = "summarized"
    /\ UNCHANGED <<query, commits, data, allData, combined, opts, gdata, svg, dom, extraVars>>

-----------------------------------------------------------------------------
(* Merging series. *)

RECURSIVE MergeLoop(_, _)
\* for (const { date, count } of data) merged.set(date, (merged.get(date) || 0) + count)
MergeLoop(entries, merged) ==
    IF entries = <<>> THEN merged
    ELSE MergeLoop(Tail(entries),
            MapSet(merged, Head(entries).date,
                   MapGetOr0(merged, Head(entries).date) + Head(entries).count))

RECURSIVE DatasetLoop(_, _)
\* for (const dataset of allData) for (const { date, count } of dataset) ...
DatasetLoop(datasets, merged) ==
    IF datasets = <<>> THEN merged
    ELSE DatasetLoop(Tail(datasets), MergeLoop(Head(datasets), merged))

\* the merge that returns the map's entries in insertion order
MergeDatasetsUnsorted(datasets) == DatasetLoop(datasets, <<>>)

\* aggregateCombined after Promise.all: merge the datasets, sort by date
MergeDatasets(datasets) == SortByDate(DatasetLoop(datasets, <<>>))

\* Heatmap.mergeActivityData
mergeActivityData(entries) == SortByDate(MergeLoop(entries, <<>>))

RECURSIVE Flatten(_)
\* for (const authorData of Object.values(json.data)) allData.push(...authorData)
Flatten(datasets) ==
    IF datasets = <<>> THEN <<>> ELSE Head(datasets) \o Flatten(Tail(datasets))

\* GitHubAggregator.aggregateCombined, every query answered
AggregateCombined ==
    /\ pc = "idle"
    /\ combined' = MergeDatasets(allData)
    /\ pc' = "combined"
    /\ UNCHANGED <<query, commits, data, summary, allData, opts, gdata, svg, dom, extraVars>>

\* aggregateCombined for n queries that miss the cache and are each answered
\* with the commits of the repository: Promise.all of the n aggregateActivity
\* calls, then the merge
AggregateCombinedFetched(n) ==
    /\ pc = "idle"
    /\ isValidDateRange(query.startDate, query.endDate)
    /\ allData' = [i \in 1..n |-> aggregateByDate(commits)]
    /\ combined' = MergeDatasets(allData')
    /\ pc' = "combined"
    /\ UNCHANGED <<query, commits, data, summary, opts, gdata, svg, dom, extraVars>>

\* Heatmap.loadMultiAuthor / loadMultiRepository on an OK response
LoadMulti ==
    /\ pc = "idle"
    /\ combined' = mergeActivityData(Flatten(allData))
    /\ pc' = "merged"
    /\ UNCHANGED <<query, commits, data, summary, allData, opts, gdata, svg, dom, extraVars>>

-----------------------------------------------------------------------------
(* The grid builders. An intensity level 0..4 stands for the theme colour  *)
(* empty, level1..level4; a cell's col and row stand for its x and y, which *)
(* are offset + index * (cellSize + gap).                                   *)

RECURSIVE MapFromEntries(_, _)
\* new Map(data.map((d) => [d.date, d.count]))
MapFromEntries(entries, m) ==
    IF entries = <<>> THEN m
    ELSE MapFromEntries(Tail(entries), MapSet(m, Head(entries).date, Head(entries).count))

\* getColor with the first threshold exclusive
getColorExclusive(count, maxCount) ==
    IF count = 0 THEN 0
    ELSE IF 4 * count < maxCount THEN 1
    ELSE IF 2 * count <= maxCount THEN 2
    ELSE IF 4 * count <= 3 * maxCount THEN 3
    ELSE 4

\* getColor / Calendar.getIntensityColor; r = count / maxCount, and r <= 0.25
\* is 4 * count <= maxCount in exact arithmetic
getColor(count, maxCount) ==
    IF count = 0 THEN 0
    ELSE IF 4 * count <= maxCount THEN 1
    ELSE IF 2 * count <= maxCount THEN 2
    ELSE IF 4 * count <= 3 * maxCount THEN 3
    ELSE 4

RECURSIVE AlignForward(_, _)
\* the alignment loop stepping a day forward instead of back
AlignForward(cursor, weekStart) ==
    IF GetUTCDay(cursor) # weekStart THEN AlignForward(cursor + 1, weekStart)
    ELSE cursor

RECURSIVE AlignToWeekStart(_, _)
\* while (cursor.getUTCDay() !== weekStart) cursor.setUTCDate(cursor.getUTCDate() - 1)
AlignToWeekStart(cursor, weekStart) ==
    IF GetUTCDay(cursor) # weekStart THEN AlignToWeekStart(cursor - 1, weekStart)
    ELSE cursor

RECURSIVE BuildWeeksExclusive(_, _)
\* the week loop with < in place of <=
BuildWeeksExclusive(weekCursor, endDate) ==
    IF weekCursor < endDate
    THEN <<[d \in 1..7 |-> weekCursor + (d - 1)]>> \o BuildWeeksExclusive(weekCursor + 7, endDate)
    ELSE <<>>

RECURSIVE BuildWeeks(_, _)
\* while (weekCursor <= endDate) { 7 x { week.push(weekCursor); weekCursor += 1 day } }
BuildWeeks(weekCursor, endDate) ==
    IF weekCursor <= endDate
    THEN <<[d \in 1..7 |-> weekCursor + (d - 1)]>> \o BuildWeeks(weekCursor + 7, endDate)
    ELSE <<>>

RECURSIVE SvgCells(_, _, _, _, _, _)
\* the w, d double loop, k = 7 * w + d: one rect per in-range day
SvgCells(weeks, k, dataMap, maxCount, startDate, endDate) ==
    IF k >= 7 * Len(weeks) THEN <<>>
    ELSE LET w       == k \div 7
             d       == k % 7
             day     == weeks[w + 1][d + 1]
             dateStr == ToISODate(day)
             count   == MapGetOr0(dataMap, dateStr)
             inRange == day >= startDate /\ day <= endDate
             rest    == SvgCells(weeks, k + 1, dataMap, maxCount, startDate, endDate)
         IN  IF inRange
             THEN <<[col |-> w, row |-> d, date |-> dateStr, count |-> count,
                     level |-> getColor(count, maxCount)]>> \o rest
             ELSE rest

DEFAULT_OPTIONS ==
    [cellSize |-> 10, cellGap |-> 3, weekStart |-> 0,
     showMonthLabels |-> TRUE, showDayLabels |-> TRUE]

\* { ...DEFAULT_OPTIONS, ...defined }
WithDefaults(o) ==
    [k \in DOMAIN DEFAULT_OPTIONS \cup DOMAIN o |->
        IF k \in DOMAIN o THEN o[k] ELSE DEFAULT_OPTIONS[k]]

\* getUTCMonth() counts the months from 0
GetUTCMonth(n) == ToISODate(n)[2] - 1

\* Math.max(weekWidth * 3, 40)
MinLabelSpacing(weekWidth) == Max(weekWidth * 3, 40)

RECURSIVE MonthLabelsSkip(_, _, _, _, _, _)
\* the label loop taking a month it could not label as seen
MonthLabelsSkip(firstDays, w, lastMonth, lastLabelX, offsetX, weekWidth) ==
    IF w >= Len(firstDays) THEN <<>>
    ELSE LET m   == GetUTCMonth(firstDays[w + 1])
             x   == offsetX + w * weekWidth
             far == lastLabelX = <<>> \/ x - lastLabelX[1] >= MinLabelSpacing(weekWidth)
         IN  IF m # lastMonth /\ far
             THEN <<[x |-> x, month |-> m]>>
                  \o MonthLabelsSkip(firstDays, w + 1, m, <<x>>, offsetX, weekWidth)
             ELSE MonthLabelsSkip(firstDays, w + 1, m, lastLabelX, offsetX, weekWidth)

RECURSIVE MonthLabels(_, _, _, _, _, _)
\* the month-label loop over the week columns; firstDays[w + 1] is the first
\* day of column w, lastLabelX is <<>> for -Infinity and <<x>> otherwise
MonthLabels(firstDays, w, lastMonth, lastLabelX, offsetX, weekWidth) ==
    IF w >= Len(firstDays) THEN <<>>
    ELSE LET m   == GetUTCMonth(firstDays[w + 1])
             x   == offsetX + w * weekWidth
             far == lastLabelX = <<>> \/ x - lastLabelX[1] >= MinLabelSpacing(weekWidth)
         IN  IF m # lastMonth /\ far
             THEN <<[x |-> x, month |-> m]>>
                  \o MonthLabels(firstDays, w + 1, m, <<x>>, offsetX, weekWidth)
             ELSE MonthLabels(firstDays, w + 1, lastMonth, lastLabelX, offsetX, weekWidth)

\* the total counted as the number of entries
TotalCountOfEntries(entries) == Len(entries)

\* data.reduce((sum, d) => sum + d.count, 0)
TotalCount(entries) == SumSeq(Counts(entries))

generateHeatmapSVG(entries, options) ==
    LET o         == WithDefaults(options)
        weekWidth == o.cellSize + o.cellGap
        dataMap   == MapFromEntries(entries, <<>>)
        maxCount  == MaxSeq(Counts(entries), 1)
        endDate   == ParseUTC(o.endDate)
        startDate == ParseUTC(o.startDate)
        cursor    == AlignToWeekStart(startDate, o.weekStart)
        dayLabelWidth == IF o.showDayLabels THEN 32 ELSE 0
        weeks     == BuildWeeks(cursor, endDate)
        gridOffsetX == dayLabelWidth
    IN  [ rendered   |-> TRUE,
          weeks      |-> weeks,
          cells      |-> SvgCells(weeks, 0, dataMap, maxCount, startDate, endDate),
          labels     |-> IF o.showMonthLabels
                         THEN MonthLabels([w \in 1..Len(weeks) |-> weeks[w][1]], 0, -1, <<>>,
                                          gridOffsetX, weekWidth)
                         ELSE <<>>,
          maxCount   |-> maxCount,
          totalCount |-> TotalCount(entries) ]

\* Calendar.getIntensityColor: the maximum is taken over this.data
getIntensityColor(count, entries) == getColor(count, MaxSeq(Counts(entries), 1))

\* one .gh-day element; day is the value of the loop's Date when it was made
DomCell(current, dataMap, entries, startDate, endDate) ==
    LET dateStr   == ToISODate(current)
        count     == MapGetOr0(dataMap, dateStr)
        isInRange == current >= startDate /\ current <= endDate
    IN  IF isInRange
        THEN [day |-> current, inRange |-> TRUE, date |-> dateStr, count |-> count,
              level |-> getIntensityColor(count, entries)]
        ELSE [day |-> current, inRange |-> FALSE, date |-> EmptyStr, count |-> 0,
              level |-> 0]

RECURSIVE DomWeeks(_, _, _, _, _)
\* while (current <= endDate) { 7 x { cell; current += 1 day }; grid.appendChild(week) }
DomWeeks(current, dataMap, entries, startDate, endDate) ==
    IF current <= endDate
    THEN <<[d \in 1..7 |-> DomCell(current + (d - 1), dataMap, entries, startDate, endDate)]>>
         \o DomWeeks(current + 7, dataMap, entries, startDate, endDate)
    ELSE <<>>

buildGrid(entries, o) ==
    LET dataMap   == MapFromEntries(entries, <<>>)
        startDate == ParseUTC(o.startDate)
        endDate   == ParseUTC(o.endDate)
        current   == AlignToWeekStart(startDate, o.weekStart)
    IN  [ rendered |-> TRUE,
          grid     |-> DomWeeks(current, dataMap, entries, startDate, endDate) ]

\* theme.grid of the built-in themes
DefaultGrid == [cellSize |-> 10, gap |-> 3]

\* this.options.theme.grid; a custom theme brings its own
ThemeGrid(o) == IF "grid" \in DOMAIN o THEN o.grid ELSE DefaultGrid

RECURSIVE EverySeventh(_, _)
\* while (current <= endDate) { ...; current += 7 days; weekIndex++ }
EverySeventh(current, endDate) ==
    IF current <= endDate THEN <<current>> \o EverySeventh(current + 7, endDate)
    ELSE <<>>

buildMonthLabels(o) ==
    LET startDate == ParseUTC(o.startDate)
        endDate   == ParseUTC(o.endDate)
        weekWidth == ThemeGrid(o).cellSize + ThemeGrid(o).gap
        current   == AlignToWeekStart(startDate, o.weekStart)
    IN  MonthLabels(EverySeventh(current, endDate), 0, -1, <<>>, 0, weekWidth)

\* Calendar.build: the month labels, when shown, and the grid
CalendarBuild(entries, o) ==
    [ rendered |-> TRUE,
      grid     |-> buildGrid(entries, o).grid,
      labels   |-> IF "showMonthLabels" \in DOMAIN o /\ ~o.showMonthLabels
                   THEN <<>> ELSE buildMonthLabels(o) ]

GenerateHeatmapSVG ==
    /\ ~svg.rendered
    /\ svg' = generateHeatmapSVG(gdata, opts)
    /\ UNCHANGED <<query, commits, data, summary, pc, allData, combined, opts, gdata, dom, extraVars>>

CalendarBuildGrid ==
    /\ ~dom.rendered
    /\ dom' = CalendarBuild(gdata, opts)
    /\ UNCHANGED <<query, commits, data, summary, pc, allData, combined, opts, gdata, svg, extraVars>>

-----------------------------------------------------------------------------
(* The date utilities formatDateISO and parseDate.                         *)
(*                                                                         *)
(* A Date is [day, ms]: the UTC day number and the milliseconds into that  *)
(* day.  A string handed to parseDate is [shape, f]: the form of the text  *)
(* and the numbers its digit groups spell, which may name no month or no   *)
(* day ("2024-13-01", "2024-02-30").                                       *)

InvalidDate == [day |-> 0, ms |-> -1]

NoText == [shape |-> "none", f |-> EmptyStr]

NoResult == [threw |-> FALSE, date |-> InvalidDate]

\* new Date(text + 'T00:00:00Z').  The date-time forms of the ECMAScript
\* format are a date-only form (YYYY, YYYY-MM, YYYY-MM-DD, or the same with
\* an expanded year) followed by the time.  A day of the month within 1..31
\* that the month does not have is accepted and carried into the next month
\* by an engine that only range-checks the field ("rollover", as V8 does),
\* and refused by one that checks it against the month ("strict").
DateParse(text, engine) ==
    LET y == text.f[1]
        m == text.f[2]
        d == text.f[3]
    IN  IF text.shape \in {"YYYY-MM-DD", "+YYYYYY-MM-DD"}
        THEN IF m \notin 1..12 \/ d \notin 1..31
             THEN InvalidDate
             ELSE IF d <= DaysInMonth(y, m)
                  THEN [day |-> ParseUTC(text.f), ms |-> 0]
                  ELSE IF engine = "rollover"
                       THEN [day |-> ParseUTC(<<y, m, 1>>) + (d - 1), ms |-> 0]
                       ELSE InvalidDate
        ELSE IF text.shape = "YYYY-MM"
             THEN IF m \in 1..12
                  THEN [day |-> ParseUTC(<<y, m, 1>>), ms |-> 0]
                  ELSE InvalidDate
             ELSE InvalidDate

parseDate(text, engine) ==
    LET date == DateParse(text, engine)
    IN  IF date = InvalidDate
        THEN [threw |-> TRUE, date |-> InvalidDate]
        ELSE [threw |-> FALSE, date |-> date]

\* toISOString() writes a year outside 0..9999 with a sign and six digits
ToISOStringDate(date) ==
    LET f == ToISODate(date.day)
    IN  [shape |-> IF f[1] \in 0..9999 THEN "YYYY-MM-DD" ELSE "+YYYYYY-MM-DD",
         f |-> f]

\* a formatter that writes getUTCMonth(), which counts from 0, as the month
formatDateISOMonthIndex(date) ==
    LET text == ToISOStringDate(date)
    IN  [text EXCEPT !.f = <<text.f[1], text.f[2] - 1, text.f[3]>>]

formatDateISO(date) == ToISOStringDate(date)

ParseDate ==
    /\ util.op = "none"
    /\ util' = [util EXCEPT !.op = "parseDate",
                            !.res = parseDate(util.text, util.engine)]
    /\ UNCHANGED <<coreVars, thrown, cache, fetch, http, lateVars>>

FormatDateISO ==
    /\ util.op = "none"
    /\ util' = [util EXCEPT !.op = "formatDateISO", !.str = formatDateISO(util.date)]
    /\ UNCHANGED <<coreVars, thrown, cache, fetch, http, lateVars>>

\* parseDate(formatDateISO(d)): the string just formatted is parsed back
ParseFormatted ==
    /\ util.op = "formatDateISO"
    /\ util' = [util EXCEPT !.op = "roundTrip",
                            !.res = parseDate(util.str, util.engine)]
    /\ UNCHANGED <<coreVars, thrown, cache, fetch, http, lateVars>>

-----------------------------------------------------------------------------
(* MemoryCache, in its two copies: src/cache.ts ("standalone": TTL in      *)
(* milliseconds, default given to the constructor) and the backend's       *)
(* cache/MemoryCache.ts ("backend": TTL in seconds, default 21600).        *)
(*                                                                         *)
(* cache.store is the Map, cache.now is Date.now(), cache.got is what the  *)
(* last get returned.  cache.written remembers, for each key, the last set *)
(* not followed by a delete of the key or a clear: it is history kept to   *)
(* state what get must return, and no operation reads it.                  *)

Keys == {"a", "b"}

Values == {"1", "2"}

\* a key the Map does not hold
NoEntry == [data |-> "null", expires |-> -1]

NoWrite == [value |-> "null", at |-> -1, ttl |-> -1]

NoGot == [key |-> "", value |-> "null"]

\* set without its third argument
Undefined == -1

\* the ttl parameter default of the backend's set, in seconds
BackendDefaultTtl == 21600

\* expires: Date.now() + (ttlMs ?? this.defaultTtlMs), or Date.now() + ttl * 1000
Expires(c, ttl) ==
    IF c.impl = "backend"
    THEN c.now + (IF ttl = Undefined THEN BackendDefaultTtl ELSE ttl) * 1000
    ELSE c.now + (IF ttl = Undefined THEN c.defaultTtlMs ELSE ttl)

\* get with >= in place of >
IsExpiredInclusive(c, entry) == c.now >= entry.expires

\* Date.now() > entry.expires
IsExpired(c, entry) == c.now > entry.expires

CacheGet(key) ==
    /\ cache.ops < MaxCacheOps
    /\ LET entry == cache.store[key]
       IN  IF entry = NoEntry
           THEN cache' = [cache EXCEPT !.got = [key |-> key, value |-> "null"],
                                       !.ops = @ + 1]
           ELSE IF IsExpired(cache, entry)
                THEN cache' = [cache EXCEPT !.store[key] = NoEntry,
                                            !.got = [key |-> key, value |-> "null"],
                                            !.ops = @ + 1]
                ELSE cache' = [cache EXCEPT !.got = [key |-> key, value |-> entry.data],
                                            !.ops = @ + 1]
    /\ UNCHANGED <<coreVars, util, thrown, fetch, http, lateVars>>

CacheSet(key, value, ttl) ==
    /\ cache.ops < MaxCacheOps
    /\ cache' = [cache EXCEPT
                    !.store[key] = [data |-> value, expires |-> Expires(cache, ttl)],
                    !.written[key] = [value |-> value, at |-> cache.now, ttl |-> ttl],
                    !.got = NoGot,
                    !.ops = @ + 1]
    /\ UNCHANGED <<coreVars, util, thrown, fetch, http, lateVars>>

CacheDelete(key) ==
    /\ cache.ops < MaxCacheOps
    /\ cache' = [cache EXCEPT !.store[key] = NoEntry,
                              !.written[key] = NoWrite,
                              !.got = NoGot,
                              !.ops = @ + 1]
    /\ UNCHANGED <<coreVars, util, thrown, fetch, http, lateVars>>

CacheClear ==
    /\ cache.ops < MaxCacheOps
    /\ cache' = [cache EXCEPT !.store = [k \in Keys |-> NoEntry],
                              !.written = [k \in Keys |-> NoWrite],
                              !.got = NoGot,
                              !.ops = @ + 1]
    /\ UNCHANGED <<coreVars, util, thrown, fetch, http, lateVars>>

\* time passes between two calls (vi.advanceTimersByTime in the tests)
Advance(ms) ==
    /\ cache.ops < MaxCacheOps
    /\ cache' = [cache EXCEPT !.now = @ + ms, !.got = NoGot, !.ops = @ + 1]
    /\ UNCHANGED <<coreVars, util, thrown, fetch, http, lateVars>>

NewCache(impl, defaultTtlMs) ==
    [impl |-> impl, defaultTtlMs |-> defaultTtlMs, now |-> 0,
     store |-> [k \in Keys |-> NoEntry], written |-> [k \in Keys |-> NoWrite],
     got |-> NoGot, ops |-> 0]

CacheIdle == cache = NewCache("none", 0)

-----------------------------------------------------------------------------
(* fetchPublicCommits.                                                     *)
(*                                                                         *)
(* The commits array is held as runs: [n, commit] stands for n copies of   *)
(* the same commit one after the other, so that a page of perPage commits  *)
(* is one or two runs.  fetch.pc is "awaiting" while a page request is out.*)

perPage == 100

\* while (hasMore && page <= 10)
MaxPages == 10

RunsLength(runs) == SumSeq([i \in 1..Len(runs) |-> runs[i].n])

NoResponse == [ok |-> TRUE, status |-> 0, statusText |-> "", remaining |-> "null", body |-> <<>>]

NoError == [message |-> "", status |-> 0, statusText |-> ""]

NoFetchResult == [data |-> <<>>, authors |-> <<>>]

NoFetch ==
    [pc |-> "idle", page |-> 1, hasMore |-> TRUE, commits |-> <<>>, res |-> NoResponse,
     result |-> NoFetchResult, error |-> NoError, requested |-> 0]

FetchIdle == fetch = NoFetch

AuthorHas(m, k) == \E i \in 1..Len(m) : m[i].login = k

\* authorMap.get(login) || 0
AuthorGetOr0(m, k) ==
    IF AuthorHas(m, k) THEN m[CHOOSE i \in 1..Len(m) : m[i].login = k].commits ELSE 0

AuthorSet(m, k, v) ==
    IF AuthorHas(m, k)
    THEN [i \in 1..Len(m) |-> IF m[i].login = k THEN [login |-> k, commits |-> v] ELSE m[i]]
    ELSE Append(m, [login |-> k, commits |-> v])

\* commit.author?.login || commit.commit?.author?.name || 'unknown'
LoginOf(commit) ==
    IF commit.login # "" THEN commit.login
    ELSE IF commit.name # "" THEN commit.name
    ELSE "unknown"

RECURSIVE FetchLoop(_, _, _)
\* for (const commit of commits): n turns of the body for a run of n
FetchLoop(runs, dateMap, authorMap) ==
    IF runs = <<>> THEN [dateMap |-> dateMap, authorMap |-> authorMap]
    ELSE LET commit  == Head(runs).commit
             n       == Head(runs).n
             dateStr == commit.date
         IN  IF dateStr.kind = "missing"
             THEN FetchLoop(Tail(runs), dateMap, authorMap)
             ELSE LET date  == SplitT0(dateStr)
                      login == LoginOf(commit)
                  IN  FetchLoop(Tail(runs),
                        MapSet(dateMap, date, MapGetOr0(dateMap, date) + n),
                        AuthorSet(authorMap, login, AuthorGetOr0(authorMap, login) + n))

RECURSIVE InsertByCommits(_, _)
\* a stable sort keeps an entry behind the earlier ones with as many commits
InsertByCommits(sorted, e) ==
    IF sorted = <<>> THEN <<e>>
    ELSE IF e.commits > Head(sorted).commits THEN <<e>> \o sorted
    ELSE <<Head(sorted)>> \o InsertByCommits(Tail(sorted), e)

RECURSIVE SortByCommits(_)
\* .sort((a, b) => b.commits - a.commits)
SortByCommits(entries) ==
    IF entries = <<>> THEN <<>>
    ELSE InsertByCommits(SortByCommits(SubSeq(entries, 1, Len(entries) - 1)),
                         entries[Len(entries)])

\* the statements after the loop
FetchAggregate(runs) ==
    LET maps == FetchLoop(runs, <<>>, <<>>)
    IN  [data |-> SortByDate(maps.dateMap), authors |-> SortByCommits(maps.authorMap)]

\* the answer to a failed request that asks whether to throw: any value of
\* the header ends the loop quietly
IsRateLimitedAny(res) == res.remaining # "null"

\* remaining === '0'
IsRateLimited(res) == res.remaining = "0"

\* a loop that goes on for as long as the pages are full
LoopContinuesWhileFull(hasMore, page) == hasMore

\* while (hasMore && page <= 10)
LoopContinues(hasMore, page) == hasMore /\ page <= MaxPages

\* fetchPublicCommits up to its first await: the repository is checked and
\* the request for page 1 goes out
FetchPublicCommits(repoIsOwnerSlashName) ==
    /\ fetch.pc = "idle"
    /\ IF repoIsOwnerSlashName
       THEN fetch' = [fetch EXCEPT !.pc = "awaiting", !.requested = 1]
       ELSE fetch' = [fetch EXCEPT !.pc = "threw",
                                   !.error = [message |-> "Invalid repository format",
                                              status |-> 0, statusText |-> ""]]
    /\ UNCHANGED <<coreVars, util, thrown, cache, http, lateVars>>

\* the response to the page request arrives: the rest of the loop body, the
\* loop test, and, when the loop ends, the aggregation
FetchResponse(res) ==
    /\ fetch.pc = "awaiting"
    /\ IF ~res.ok
       THEN IF IsRateLimited(res)
            THEN fetch' = [fetch EXCEPT !.res = res, !.pc = "returned",
                                        !.result = FetchAggregate(fetch.commits)]
            ELSE fetch' = [fetch EXCEPT !.res = res, !.pc = "threw",
                                        !.error = [message |-> "GitHub API error: ",
                                                   status |-> res.status,
                                                   statusText |-> res.statusText]]
       ELSE LET pushed  == fetch.commits \o res.body
                hasMore == RunsLength(res.body) = perPage
                page    == fetch.page + 1
            IN  IF LoopContinues(hasMore, page)
                THEN fetch' = [fetch EXCEPT !.res = res, !.commits = pushed,
                                            !.hasMore = hasMore, !.page = page,
                                            !.requested = @ + 1]
                ELSE fetch' = [fetch EXCEPT !.res = res, !.commits = pushed,
                                            !.hasMore = hasMore, !.page = page,
                                            !.pc = "returned",
                                            !.result = FetchAggregate(pushed)]
    /\ UNCHANGED <<coreVars, util, thrown, cache, http, lateVars>>

-----------------------------------------------------------------------------
(* The Express handler of GET /activity.                                   *)

NoHttp == [status |-> 0, error |-> "", message |-> "", data |-> <<>>, upstream |-> "none"]

HttpIdle == http = NoHttp

\* the handler with a cold cache: aggregateActivity validates, fetches and
\* aggregates; whatever it throws is caught and answered the same way.
\* upstreamFails: the request to the GitHub API is rejected
GetActivity(upstreamFails) ==
    /\ pc = "idle"
    /\ http = NoHttp
    /\ pc' = "responded"
    /\ IF validateQueryOptions(query) # ""
       THEN /\ http' = [status |-> 500, error |-> "AggregationFailed",
                        message |-> validateQueryOptions(query), data |-> <<>>,
                        upstream |-> "none"]
            /\ thrown' = validateQueryOptions(query)
            /\ data' = data
       ELSE IF upstreamFails
            THEN /\ http' = [status |-> 500, error |-> "AggregationFailed",
                             message |-> "Failed to fetch commits from GitHub API",
                             data |-> <<>>, upstream |-> "failed"]
                 /\ thrown' = "Failed to fetch commits from GitHub API"
                 /\ data' = data
            ELSE /\ data' = aggregateByDate(commits)
                 /\ http' = [status |-> 200, error |-> "", message |-> "",
                             data |-> data', upstream |-> "ok"]
                 /\ thrown' = thrown
    /\ UNCHANGED <<query, commits, summary, allData, combined, opts, gdata, svg, dom,
                   util, cache, fetch, lateVars>>

NoSvg ==
    [rendered |-> FALSE, weeks |-> <<>>, cells |-> <<>>, labels |-> <<>>,
     maxCount |-> 0, totalCount |-> 0]
NoDom == [rendered |-> FALSE, grid |-> <<>>, labels |-> <<>>]

-----------------------------------------------------------------------------
(* The Calendar of the monorepo's frontend package                         *)
(* (packages/frontend/src/components/Calendar.ts), a copy of the Calendar  *)
(* of src/dom/Calendar.ts with its own month label loop.                   *)

\* getIntensityColor of the frontend copy
FrontendGetIntensityColor(count, entries) ==
    IF count = 0 THEN 0
    ELSE LET maxCount == MaxSeq(Counts(entries), 1)
         IN  IF 4 * count <= maxCount THEN 1
             ELSE IF 2 * count <= maxCount THEN 2
             ELSE IF 4 * count <= 3 * maxCount THEN 3
             ELSE 4

\* one .gh-day element of the frontend copy
FrontendCell(current, dataMap, entries, startDate, endDate) ==
    LET dateStr   == ToISODate(current)
        count     == MapGetOr0(dataMap, dateStr)
        isInRange == current >= startDate /\ current <= endDate
    IN  IF isInRange
        THEN [day |-> current, inRange |-> TRUE, date |-> dateStr, count |-> count,
              level |-> FrontendGetIntensityColor(count, entries)]
        ELSE [day |-> current, inRange |-> FALSE, date |-> EmptyStr, count |-> 0,
              level |-> 0]

RECURSIVE FrontendWeeks(_, _, _, _, _)
\* while (current <= endDate) { for (d < 7) { cell; current += 1 day } }
FrontendWeeks(current, dataMap, entries, startDate, endDate) ==
    IF current <= endDate
    THEN <<[d \in 1..7 |->
              FrontendCell(current + (d - 1), dataMap, entries, startDate, endDate)]>>
         \o FrontendWeeks(current + 7, dataMap, entries, startDate, endDate)
    ELSE <<>>

RECURSIVE FrontendAlign(_, _)
\* while (current.getUTCDay() !== this.options.weekStart) current -= 1 day
FrontendAlign(cursor, weekStart) ==
    IF GetUTCDay(cursor) # weekStart THEN FrontendAlign(cursor - 1, weekStart)
    ELSE cursor

FrontendBuildGrid(entries, o) ==
    LET dataMap   == MapFromEntries(entries, <<>>)
        startDate == ParseUTC(o.startDate)
        endDate   == ParseUTC(o.endDate)
        current   == FrontendAlign(startDate, o.weekStart)
    IN  FrontendWeeks(current, dataMap, entries, startDate, endDate)

RECURSIVE FrontendMonthLabels(_, _, _, _, _)
\* the label loop of the frontend copy: a label at every column whose first
\* day is in another month than the last label
FrontendMonthLabels(current, endDate, weekIndex, lastMonth, weekWidth) ==
    IF current > endDate THEN <<>>
    ELSE LET month == GetUTCMonth(current)
         IN  IF month # lastMonth
             THEN <<[x |-> weekIndex * weekWidth, month |-> month]>>
                  \o FrontendMonthLabels(current + 7, endDate, weekIndex + 1, month,
                                         weekWidth)
             ELSE FrontendMonthLabels(current + 7, endDate, weekIndex + 1, lastMonth,
                                      weekWidth)

FrontendBuildMonthLabels(o) ==
    LET startDate == ParseUTC(o.startDate)
        endDate   == ParseUTC(o.endDate)
        weekWidth == ThemeGrid(o).cellSize + ThemeGrid(o).gap
        current   == FrontendAlign(startDate, o.weekStart)
    IN  FrontendMonthLabels(current, endDate, 0, -1, weekWidth)

\* Calendar.build of the frontend copy
FrontendCalendarBuild(entries, o) ==
    [ rendered |-> TRUE,
      grid     |-> FrontendBuildGrid(entries, o),
      labels   |-> IF "showMonthLabels" \in DOMAIN o /\ ~o.showMonthLabels
                   THEN <<>> ELSE FrontendBuildMonthLabels(o) ]

FrontendBuild ==
    /\ ~fcal.rendered
    /\ fcal' = FrontendCalendarBuild(gdata, opts)
    /\ UNCHANGED <<coreVars, earlyVars, agg, hm>>

-----------------------------------------------------------------------------
(* The Heatmap component (packages/frontend/src/components/Heatmap.ts; the *)
(* Heatmap of src/dom has the same load, render, showError and destroy).   *)
(*                                                                         *)
(* The container is the sequence of its child elements.  A call of load    *)
(* stands at `await fetch` (stage "fetch") or at `await response.json()`   *)
(* (stage "json") until the promise it waits for settles; every call that  *)
(* was made is kept in hm.requests, in the order the calls were made, with *)
(* the URL it asked for and how it ended.  currentQuery is a function      *)
(* whose domain is the set of keys the object has.                         *)

\* the config the component runs with: the defaults and one week to show
HmConfig ==
    [startDate |-> <<2024, 1, 28>>, endDate |-> <<2024, 2, 3>>, weekStart |-> 0,
     cellSize |-> 11, cellGap |-> 3, showTooltip |-> TRUE,
     showMonthLabels |-> TRUE, showDayLabels |-> TRUE,
     loadingText |-> "Loading activity data...",
     errorText |-> "Failed to load activity data.",
     grid |-> [cellSize |-> 11, gap |-> 3]]

\* <div class="gh-heatmap-loading">
LoadingChild ==
    [kind |-> "loading", text |-> HmConfig.loadingText, cal |-> NoDom,
     listeners |-> FALSE]

\* <div class="gh-heatmap-error">
ErrorChild ==
    [kind |-> "error", text |-> HmConfig.errorText, cal |-> NoDom,
     listeners |-> FALSE]

\* the element calendar.build() returns, with the listeners on its cells
CalendarChild(entries) ==
    [kind |-> "calendar", text |-> "", cal |-> FrontendCalendarBuild(entries, HmConfig),
     listeners |-> HmConfig.showTooltip]

NoHm ==
    [exists |-> FALSE, container |-> <<>>, data |-> <<>>, currentQuery |-> <<>>,
     tooltip |-> FALSE, requests |-> <<>>, errors |-> 0, destroyed |-> FALSE]

\* new Heatmap(container, config) with config.queryOptions
NewHeatmap(queryOptions) ==
    [exists |-> TRUE, container |-> <<>>, data |-> <<>>,
     currentQuery |-> queryOptions, tooltip |-> FALSE, requests |-> <<>>,
     errors |-> 0, destroyed |-> FALSE]

\* { ...a, ...b }
Spread(a, b) ==
    [k \in DOMAIN a \cup DOMAIN b |-> IF k \in DOMAIN b THEN b[k] ELSE a[k]]

\* delete object[key]
DeleteKey(object, key) == [k \in DOMAIN object \ {key} |-> object[k]]

\* buildUrl: the parameters of the query string, one for each truthy filter
buildUrl(h) ==
    [k \in {f \in DOMAIN h.currentQuery : h.currentQuery[f] # ""} |->
        h.currentQuery[k]]

showLoading(h) == [h EXCEPT !.container = <<LoadingChild>>]

\* showError: the error text replaces the content, then onError(error)
showError(h) == [h EXCEPT !.container = <<ErrorChild>>, !.errors = @ + 1]

\* a render that appends to what the container holds
renderAppending(h) == [h EXCEPT !.container = @ \o <<CalendarChild(h.data)>>]

\* render: innerHTML = '', one calendar appended, listeners attached
render(h) == [h EXCEPT !.container = <<CalendarChild(h.data)>>]

\* load up to its first await: showLoading, buildUrl, fetch(queryUrl)
load(h) ==
    LET shown == showLoading(h)
    IN  [shown EXCEPT !.requests =
            Append(@, [url |-> buildUrl(shown), stage |-> "fetch",
                       outcome |-> "pending", body |-> <<>>, parses |-> TRUE])]

\* the filter setters: a truthy value is stored, null or "" deletes the key
SetFilter(h, key, value) ==
    IF value # "" THEN [h EXCEPT !.currentQuery = Spread(@, key :> value)]
    ELSE [h EXCEPT !.currentQuery = DeleteKey(@, key)]

\* the methods are called on a component that exists and was not destroyed
\* (the React wrapper drops its reference when it calls destroy)
CanCall == hm.exists /\ ~hm.destroyed

CanLoad == CanCall /\ Len(hm.requests) < MaxLoads

Load ==
    /\ CanLoad
    /\ hm' = load(hm)
    /\ UNCHANGED notHm

UpdateQuery(options) ==
    /\ CanLoad
    /\ hm' = load([hm EXCEPT !.currentQuery = Spread(@, options)])
    /\ UNCHANGED notHm

SetAuthor(author) ==
    /\ CanLoad
    /\ hm' = load(SetFilter(hm, "author", author))
    /\ UNCHANGED notHm

SetBranch(branch) ==
    /\ CanLoad
    /\ hm' = load(SetFilter(hm, "branch", branch))
    /\ UNCHANGED notHm

SetPath(path) ==
    /\ CanLoad
    /\ hm' = load(SetFilter(hm, "path", path))
    /\ UNCHANGED notHm

ClearFilters ==
    /\ CanLoad
    /\ hm' = load([hm EXCEPT !.currentQuery = <<>>])
    /\ UNCHANGED notHm

\* the promise of fetch settles for call i: a rejection or a response that
\* is not ok goes to the catch block, an ok response to response.json()
HeatmapFetchSettles(i, res) ==
    /\ hm.exists
    /\ i \in 1..Len(hm.requests)
    /\ hm.requests[i].stage = "fetch"
    /\ hm' = IF res.rejected \/ ~res.ok
             THEN [showError(hm) EXCEPT !.requests[i].stage = "done",
                                        !.requests[i].outcome = "failed"]
             ELSE [hm EXCEPT !.requests[i].stage = "json",
                             !.requests[i].body = res.data,
                             !.requests[i].parses = res.parses]
    /\ UNCHANGED notHm

\* the promise of response.json() settles for call i: this.data = json.data
\* and render(), or the catch block when the body is not JSON
HeatmapJsonSettles(i) ==
    /\ hm.exists
    /\ i \in 1..Len(hm.requests)
    /\ hm.requests[i].stage = "json"
    /\ hm' = IF hm.requests[i].parses
             THEN [render([hm EXCEPT !.data = hm.requests[i].body])
                      EXCEPT !.requests[i].stage = "done",
                             !.requests[i].outcome = "ok"]
             ELSE [showError(hm) EXCEPT !.requests[i].stage = "done",
                                        !.requests[i].outcome = "failed"]
    /\ UNCHANGED notHm

\* destroy: tooltip.destroy() and container.innerHTML = ''
Destroy ==
    /\ CanCall
    /\ hm' = [hm EXCEPT !.tooltip = FALSE, !.container = <<>>, !.destroyed = TRUE]
    /\ UNCHANGED notHm

\* the pointer enters a day cell: the mouseenter listener shows the tooltip
MouseEnter ==
    /\ hm.exists
    /\ \E c \in 1..Len(hm.container) : hm.container[c].listeners
    /\ ~hm.tooltip
    /\ hm' = [hm EXCEPT !.tooltip = TRUE]
    /\ UNCHANGED notHm

\* the pointer leaves the cell: the mouseleave listener hides the tooltip
MouseLeave ==
    /\ hm.exists
    /\ \E c \in 1..Len(hm.container) : hm.container[c].listeners
    /\ hm.tooltip
    /\ hm' = [hm EXCEPT !.tooltip = FALSE]
    /\ UNCHANGED notHm

-----------------------------------------------------------------------------
(* The backend service: a GitHubAggregator with its cache (a MemoryCache)  *)
(* and its RateLimiter.                                                    *)
(*                                                                         *)
(* The options that go into a cache key are TLA+ strings, so two keys are  *)
(* equal exactly when the strings the code builds are equal.  An option    *)
(* that is absent is "": every use of an option in aggregateActivity,      *)
(* generateCacheKey and fetchCommits treats undefined and '' alike.        *)
(*                                                                         *)
(* agg.calls[i] is a running call of aggregateActivity.  It holds the      *)
(* local variables of aggregateActivity and paginateCommits and stands at  *)
(* one of their awaits: "got" (cache.get was called), "checked" (checkLimit*)
(* was called), "requested" (the page request is out).  agg.last is the    *)
(* call that ended last: "returned" or "threw".  Calls overlap, as they do *)
(* under the Promise.all of aggregateCombined and under two HTTP requests. *)
(*                                                                         *)
(* History kept to state properties, read by no operation: in an entry of  *)
(* the Map, options (the query whose commits it holds); in a call, sets,   *)
(* limited, firstPage, after and latest; in agg, succeeded, lastStored,    *)
(* lastHeaders, started and ticks.                                         *)

Pad2(n) == IF n < 10 THEN "0" \o ToString(n) ELSE ToString(n)

\* the text of a date the model holds as <<year, month, day>>
DateText(d) ==
    IF d = EmptyStr THEN ""
    ELSE ToString(d[1]) \o "-" \o Pad2(d[2]) \o "-" \o Pad2(d[3])

RECURSIVE Join(_, _)
\* parts.join(sep)
Join(parts, sep) ==
    IF parts = <<>> THEN ""
    ELSE IF Len(parts) = 1 THEN parts[1]
    ELSE parts[1] \o sep \o Join(Tail(parts), sep)

generateCacheKey(options) ==
    LET parts0 == <<IF options.repository # "" THEN options.repository ELSE "default",
                    DateText(options.startDate), DateText(options.endDate)>>
        parts1 == IF options.author # ""
                  THEN Append(parts0, "author:" \o options.author) ELSE parts0
        parts2 == IF options.branch # ""
                  THEN Append(parts1, "branch:" \o options.branch) ELSE parts1
        parts3 == IF options.path # ""
                  THEN Append(parts2, "path:" \o options.path) ELSE parts2
    IN  Join(parts3, "::")

\* a Map<string, CacheEntry> as the function from the keys it holds
StorePut(store, key, entry) ==
    [k \in DOMAIN store \cup {key} |-> IF k = key THEN entry ELSE store[k]]

StoreDrop(store, key) == [k \in DOMAIN store \ {key} |-> store[k]]

NoOptions ==
    [repository |-> "", startDate |-> EmptyStr, endDate |-> EmptyStr,
     author |-> "", branch |-> "", path |-> ""]

\* what get returns for a key the Map does not hold, or holds expired: null
Null == [hit |-> FALSE, data |-> <<>>, expires |-> -1, options |-> NoOptions]

\* MemoryCache.get: the value it returns and the Map it leaves
MemoryGet(store, key, now) ==
    IF key \notin DOMAIN store THEN [value |-> Null, store |-> store]
    ELSE IF IsExpired([now |-> now], store[key])
         THEN [value |-> Null, store |-> StoreDrop(store, key)]
         ELSE [value |-> [hit |-> TRUE, data |-> store[key].data,
                          expires |-> store[key].expires,
                          options |-> store[key].options],
               store |-> store]

\* MemoryCache.set
MemorySet(store, key, value, ttl, now, options) ==
    StorePut(store, key,
             [data |-> value,
              expires |-> Expires([impl |-> "backend", now |-> now, defaultTtlMs |-> 0], ttl),
              options |-> options])

\* new RateLimiter(): remaining = 5000, resetAt = new Date()
NewRateLimiter(now) == [remaining |-> 5000, resetAt |-> now]

\* checkLimit: TRUE when it returns true, FALSE when it throws RateLimitError
checkLimit(limiter, now) == ~(limiter.remaining <= 100 /\ now < limiter.resetAt)

\* updateFromHeaders: x-ratelimit-remaining, and x-ratelimit-reset in seconds
updateFromHeaders(limiter, headers) ==
    [remaining |-> IF headers.remaining # Undefined
                   THEN headers.remaining ELSE limiter.remaining,
     resetAt   |-> IF headers.reset # Undefined
                   THEN headers.reset * 1000 ELSE limiter.resetAt]

RECURSIVE AggregateRuns(_, _)
\* for (const commit of commits) over a commits array held as runs: n turns
\* of the body for a run of n equal commits
AggregateRuns(runs, activityMap) ==
    IF runs = <<>> THEN activityMap
    ELSE LET dateStr == Head(runs).commit.date
         IN  IF dateStr.kind = "missing"
             THEN AggregateRuns(Tail(runs), activityMap)
             ELSE LET date == SplitT0(dateStr)
                  IN  AggregateRuns(Tail(runs),
                        MapSet(activityMap, date,
                               MapGetOr0(activityMap, date) + Head(runs).n))

\* aggregateByDate of a commits array held as runs
aggregateRunsByDate(runs) == SortByDate(AggregateRuns(runs, <<>>))

NoHeaders == [remaining |-> Undefined, reset |-> Undefined]

NoAggCall ==
    [pc |-> "none", options |-> NoOptions, key |-> "", cached |-> Null,
     page |-> 1, commits |-> <<>>, checkThrew |-> FALSE,
     result |-> <<>>, error |-> "", cause |-> "",
     requests |-> 0, checks |-> 0, sets |-> 0, limited |-> FALSE, firstPage |-> 0,
     after |-> {}, latest |-> Null]

\* the aggregator before its constructor has run
NoAgg ==
    [now |-> 0, ttl |-> Undefined, store |-> <<>>, limiter |-> NewRateLimiter(0),
     calls |-> [i \in 1..MaxInFlight |-> NoAggCall], last |-> NoAggCall,
     started |-> 0, succeeded |-> {}, lastStored |-> <<>>,
     lastHeaders |-> NoHeaders, ticks |-> 0]

LateIdle == agg = NoAgg /\ fcal = NoDom /\ hm = NoHm

\* new GitHubAggregator(config) at time now, config.cache?.ttl = ttl
NewAggregator(now, ttl) ==
    [now |-> now, ttl |-> ttl, store |-> <<>>, limiter |-> NewRateLimiter(now),
     calls |-> [i \in 1..MaxInFlight |-> NoAggCall], last |-> NoAggCall,
     started |-> 0, succeeded |-> {}, lastStored |-> <<>>,
     lastHeaders |-> NoHeaders, ticks |-> 0]

notAgg == <<coreVars, earlyVars, fcal, hm>>

\* the catch block with a cache.set of what was fetched before the failure
CatchStoresFetched(a, call) ==
    MemorySet(a.store, call.key, aggregateRunsByDate(call.commits), a.ttl, a.now,
              call.options)

\* the Map after the catch block of aggregateActivity: it throws
\* AggregationError and does not touch the cache
CatchFetchError(a, call) == a.store

\* the slot of a call that begins: the first one no running call holds
FreeSlot == CHOOSE i \in 1..MaxInFlight :
                /\ agg.calls[i].pc = "none"
                /\ \A j \in 1..(i - 1) : agg.calls[j].pc # "none"

\* aggregateActivity(options) is called: validateQueryOptions, generateCacheKey
\* and the body of cache.get run before the first await
AggregateActivityCall(options) ==
    /\ agg.started < MaxAggCalls
    /\ \E i \in 1..MaxInFlight : agg.calls[i].pc = "none"
    /\ LET key  == generateCacheKey(options)
           got  == MemoryGet(agg.store, key, agg.now)
           live == {s \in agg.succeeded : s.key = key /\ agg.now <= s.expires}
       IN  IF validateQueryOptions(options) # ""
           THEN agg' = [agg EXCEPT
                    !.started = @ + 1,
                    !.last = [NoAggCall EXCEPT !.pc = "threw", !.options = options,
                                               !.error = "Error"]]
           ELSE agg' = [agg EXCEPT
                    !.started = @ + 1,
                    !.store = got.store,
                    !.calls[FreeSlot] =
                        [NoAggCall EXCEPT
                            !.pc = "got", !.options = options, !.key = key,
                            !.cached = got.value,
                            !.after = {s.data : s \in live},
                            !.latest = IF /\ key \in DOMAIN agg.lastStored
                                          /\ agg.now <= agg.lastStored[key].expires
                                       THEN [hit |-> TRUE,
                                             data |-> agg.lastStored[key].data,
                                             expires |-> agg.lastStored[key].expires,
                                             options |-> agg.lastStored[key].options]
                                       ELSE Null]]
    /\ UNCHANGED notAgg

\* after await this.cache.get: return the cached series, or enter fetchCommits
\* and paginateCommits up to the call of checkLimit for page 1
AggregateActivityAfterGet(i) ==
    /\ agg.calls[i].pc = "got"
    /\ LET call == agg.calls[i]
       IN  IF call.cached.hit
           THEN agg' = [agg EXCEPT
                    !.calls[i] = NoAggCall,
                    !.last = [call EXCEPT !.pc = "returned",
                                          !.result = call.cached.data],
                    !.succeeded = @ \cup {[key |-> call.key, data |-> call.cached.data,
                                           expires |-> call.cached.expires]}]
           ELSE agg' = [agg EXCEPT
                    !.calls[i] = [call EXCEPT !.pc = "checked", !.checks = @ + 1,
                                    !.checkThrew = ~checkLimit(agg.limiter, agg.now)]]
    /\ UNCHANGED notAgg

\* after await this.rateLimiter.checkLimit(): the RateLimitError is caught and
\* wrapped, or the page request is issued
PaginateCommitsAfterCheck(i) ==
    /\ agg.calls[i].pc = "checked"
    /\ LET call == agg.calls[i]
       IN  IF call.checkThrew
           THEN agg' = [agg EXCEPT
                    !.calls[i] = NoAggCall,
                    !.last = [call EXCEPT !.pc = "threw",
                                          !.error = "AggregationError",
                                          !.cause = "RateLimitError"],
                    !.store = CatchFetchError(agg, call)]
           ELSE agg' = [agg EXCEPT
                    !.calls[i] = [call EXCEPT
                        !.pc = "requested", !.requests = @ + 1,
                        !.limited = @ \/ ~checkLimit(agg.limiter, agg.now),
                        !.firstPage = IF @ = 0 THEN call.page ELSE @]]
    /\ UNCHANGED notAgg

\* after await this.octokit.repos.listCommits: a rejection is caught and
\* wrapped; a response is pushed, the limiter is updated, and the loop goes on
\* to checkLimit or ends, and then aggregateByDate and cache.set run
PaginateCommitsResponse(i, res) ==
    /\ agg.calls[i].pc = "requested"
    /\ (res.ok /\ RunsLength(res.body) = 100) => agg.calls[i].page < MaxAggPages
    /\ LET call     == agg.calls[i]
           pushed   == call.commits \o res.body
           limiter2 == updateFromHeaders(agg.limiter, res.headers)
           result   == aggregateRunsByDate(pushed)
           store2   == MemorySet(agg.store, call.key, result, agg.ttl, agg.now,
                                 call.options)
       IN  IF ~res.ok
           THEN agg' = [agg EXCEPT
                    !.calls[i] = NoAggCall,
                    !.last = [call EXCEPT !.pc = "threw",
                                          !.error = "AggregationError",
                                          !.cause = "RequestError"],
                    !.store = CatchFetchError(agg, call),
                    !.lastHeaders = res.headers]
           ELSE IF RunsLength(res.body) = 100
           THEN agg' = [agg EXCEPT
                    !.calls[i] = [call EXCEPT
                        !.commits = pushed, !.page = @ + 1,
                        !.pc = "checked", !.checks = @ + 1,
                        !.checkThrew = ~checkLimit(limiter2, agg.now)],
                    !.limiter = limiter2,
                    !.lastHeaders = res.headers]
           ELSE agg' = [agg EXCEPT
                    !.calls[i] = NoAggCall,
                    !.last = [call EXCEPT !.commits = pushed, !.page = @ + 1,
                                          !.pc = "returned", !.result = result,
                                          !.sets = @ + 1],
                    !.limiter = limiter2,
                    !.lastHeaders = res.headers,
                    !.store = store2,
                    !.succeeded = @ \cup {[key |-> call.key, data |-> result,
                                           expires |-> store2[call.key].expires]},
                    !.lastStored = StorePut(@, call.key, store2[call.key])]
    /\ UNCHANGED notAgg

\* setCache(new MemoryCache()), or clear() on the cache in use
SetCache ==
    /\ DOMAIN agg.store # {}
    /\ agg' = [agg EXCEPT !.store = <<>>, !.succeeded = {}, !.lastStored = <<>>]
    /\ UNCHANGED notAgg

\* delete(key) on the cache in use
DeleteCached(key) ==
    /\ key \in DOMAIN agg.store
    /\ agg' = [agg EXCEPT !.store = StoreDrop(@, key),
                          !.succeeded = {s \in @ : s.key # key},
                          !.lastStored = StoreDrop(@, key)]
    /\ UNCHANGED notAgg

\* time passes
Tick(ms) ==
    /\ agg.ticks < MaxAggTicks
    /\ agg' = [agg EXCEPT !.now = @ + ms, !.ticks = @ + 1]
    /\ UNCHANGED notAgg

-----------------------------------------------------------------------------
(* Inputs of the aggregator. *)

FirstDay == <<2024, 1, 1>>

Times == {"00:30:00Z", "23:30:00Z"}

\* a timestamp whose date part names no calendar day ("2024-13-45T...")
NotADate == <<2024, 13, 45>>

RangeDates(start, end) == {ToISODate(n) : n \in ParseUTC(start)..ParseUTC(end)}

Timestamps(q) ==
    {Missing}
    \cup {[kind |-> "str", d |-> d, t |-> t] :
            d \in RangeDates(q.startDate, q.endDate) \cup {NotADate}, t \in Times}

Queries ==
    {[startDate |-> FirstDay, endDate |-> ToISODate(ParseUTC(FirstDay) + k)] :
        k \in 0..MaxSpan}

NoOpts == [startDate |-> EmptyStr, endDate |-> EmptyStr, weekStart |-> 0]
NoQuery == [startDate |-> EmptyStr, endDate |-> EmptyStr]

AggregatorIdle ==
    /\ query = NoQuery
    /\ commits = <<>>
    /\ data = <<>>
    /\ summary = NoSummary

MergeIdle ==
    /\ allData = <<>>
    /\ combined = <<>>

GridIdle ==
    /\ opts = NoOpts
    /\ gdata = <<>>
    /\ svg = NoSvg
    /\ dom = NoDom

NoCall == [op |-> "none", engine |-> "strict", text |-> NoText, date |-> InvalidDate,
           str |-> NoText, res |-> NoResult]

UtilIdle == util = NoCall

ExtraIdle ==
    /\ UtilIdle
    /\ thrown = ""
    /\ CacheIdle
    /\ FetchIdle
    /\ HttpIdle
    /\ LateIdle

Init ==
    /\ query \in Queries
    /\ commits \in SeqsUpTo({[date |-> ts] : ts \in Timestamps(query)}, MaxCommits)
    /\ data = <<>>
    /\ summary = NoSummary
    /\ pc = "idle"
    /\ MergeIdle
    /\ GridIdle
    /\ ExtraIdle

Next == AggregateActivity \/ GetActivitySummary

Spec == Init /\ [][Next]_vars

-----------------------------------------------------------------------------
(* Inputs of the merge: up to three series, each sorted by date. *)

MergeDates == <<<<2024, 1, 31>>, <<2024, 2, 1>>>>

\* f[i] = -1: no entry for MergeDates[i]
SeriesOf(f) ==
    SelectSeq([i \in 1..Len(MergeDates) |-> [date |-> MergeDates[i], count |-> f[i]]],
              LAMBDA e : e.count >= 0)

MergeSeries == {SeriesOf(f) : f \in [1..Len(MergeDates) -> -1..MaxMergeCount]}

InitMerge ==
    /\ allData \in SeqsUpTo(MergeSeries, 3)
    /\ combined = <<>>
    /\ pc = "idle"
    /\ AggregatorIdle
    /\ GridIdle
    /\ ExtraIdle

NextMerge == AggregateCombined \/ LoadMulti

SpecMerge == InitMerge /\ [][NextMerge]_vars

-----------------------------------------------------------------------------
(* Inputs of the grid builders: ranges that start on each weekday around   *)
(* the end of February 2024, and up to two entries of data.                *)

GridBase == <<2024, 2, 25>>

\* the single-day range on Saturday 2024-06-15, weeks starting on Sunday
SaturdayOnly == [startDate |-> <<2024, 6, 15>>, endDate |-> <<2024, 6, 15>>, weekStart |-> 0]

GridOpts ==
    {[startDate |-> ToISODate(ParseUTC(GridBase) + s),
      endDate   |-> ToISODate(ParseUTC(GridBase) + s + k),
      weekStart |-> ws] : s \in 0..6, k \in 0..MaxGridSpan, ws \in {0, 1}}
    \cup {SaturdayOnly}

GridData ==
    {<<>>}
    \cup {<<[date |-> <<2024, 2, 29>>, count |-> c]>> : c \in 0..MaxCount}
    \cup {<<[date |-> <<2024, 2, 29>>, count |-> c],
            [date |-> <<2024, 3, 1>>, count |-> m]>> : c \in 0..MaxCount, m \in 0..MaxCount}

InitGrid ==
    /\ opts \in GridOpts
    /\ gdata \in GridData
    /\ svg = NoSvg
    /\ dom = NoDom
    /\ pc = "idle"
    /\ AggregatorIdle
    /\ MergeIdle
    /\ ExtraIdle

NextGrid == GenerateHeatmapSVG \/ CalendarBuildGrid

SpecGrid == InitGrid /\ [][NextGrid]_vars

-----------------------------------------------------------------------------
(* The summary as the specification words it: statistics over the calendar *)
(* dates of the range, a date without an entry counting as 0.              *)

Usable(ts) == ts.kind = "str" /\ IsRealDate(ts.d)

AllUsable(cs) == \A i \in 1..Len(cs) : Usable(cs[i].date)

UsableOn(cs, d) == {i \in 1..Len(cs) : Usable(cs[i].date) /\ cs[i].date.d = d}

UsableDates(cs) == {cs[i].date.d : i \in {j \in 1..Len(cs) : Usable(cs[j].date)}}

RangeDays(q) == ParseUTC(q.startDate)..ParseUTC(q.endDate)

CountOn(s, day) ==
    LET hit == {i \in 1..Len(s) : s[i].date = ToISODate(day)}
    IN  IF hit = {} THEN 0 ELSE s[CHOOSE i \in hit : TRUE].count

ActiveRun(s, lo, hi) == \A n \in lo..hi : CountOn(s, n) > 0

LongestRun(s, q) ==
    LET runs == {hi - lo + 1 : lo \in RangeDays(q), hi \in RangeDays(q)}
        ok   == {len \in runs : len >= 1 /\
                    \E lo \in RangeDays(q) :
                        /\ lo + len - 1 \in RangeDays(q)
                        /\ ActiveRun(s, lo, lo + len - 1)}
    IN  IF ok = {} THEN 0 ELSE CHOOSE len \in ok : \A other \in ok : other <= len

TrailingRun(s, q) ==
    LET end == ParseUTC(q.endDate)
        ok  == {k \in 0..Cardinality(RangeDays(q)) : ActiveRun(s, end - k + 1, end)}
    IN  CHOOSE k \in ok : \A other \in ok : other <= k

Summarized == pc = "summarized"

Aggregated == pc \in {"aggregated", "summarized"}

\* C2: longestStreak is the length of the longest run of consecutive calendar
\* dates of the range that each have count > 0; a date without an entry breaks
\* the run.
C2_LongestStreakIsLongestCalendarRun ==
    (Summarized /\ AllUsable(commits))
        => summary.longestStreak = LongestRun(data, query)

\* C3: currentStreak is the length of the run of consecutive active calendar
\* dates that ends exactly at range.end, and 0 when range.end has no activity.
C3_CurrentStreakEndsAtRangeEnd ==
    (Summarized /\ AllUsable(commits))
        => summary.currentStreak = TrailingRun(data, query)

\* C6: aggregateByDate has one entry per distinct UTC date on which an event
\* falls, with the number of events of that date as its count; no entry is 0,
\* the dates are unique and ascending, and the counts sum to the number of
\* events with a usable timestamp.
C6_AggregateGroupsByUTCDate ==
    Aggregated =>
        /\ {data[i].date : i \in 1..Len(data)} = UsableDates(commits)
        /\ \A i \in 1..Len(data) :
              /\ data[i].count = Cardinality(UsableOn(commits, data[i].date))
              /\ data[i].count > 0
        /\ \A i \in 1..Len(data) - 1 : StrLess(data[i].date, data[i + 1].date)
        /\ SumSeq(Counts(data))
              = Cardinality({i \in 1..Len(commits) : Usable(commits[i].date)})

\* C7: an event whose timestamp is missing or not parseable as a date adds no
\* entry and changes no count: the series is the one of the remaining events.
C7_UnusableTimestampSkipped ==
    Aggregated =>
        /\ Len(data) = Cardinality(UsableDates(commits))
        /\ \A i \in 1..Len(data) :
              /\ IsRealDate(data[i].date)
              /\ data[i].count = Cardinality(UsableOn(commits, data[i].date))

\* C8: the summary of an empty series is all zero, with the sentinel
\* {date: "", count: 0} as mostActiveDay.
C8_EmptySeriesSummary ==
    (Summarized /\ data = <<>>) =>
        summary = [ totalCommits |-> 0, activeDays |-> 0, longestStreak |-> 0,
                    currentStreak |-> 0, averageCommitsPerDay |-> 0,
                    mostActiveDay |-> [date |-> EmptyStr, count |-> 0] ]

\* C8 witness: a summary was computed from commits none of which has a date.
C8_Witness == Summarized /\ data = <<>> /\ Len(commits) > 0

\* C9: averageCommitsPerDay is totalCommits divided by the number of calendar
\* dates of the range, rounded to one decimal.
C9_AverageOverRangeDates ==
    (Summarized /\ AllUsable(commits))
        => summary.averageCommitsPerDay
              = RoundDiv(summary.totalCommits * 10, Cardinality(RangeDays(query)))

\* C10: mostActiveDay is the entry with the highest count; among entries
\* sharing the highest count it is the earliest; the sentinel when empty.
C10_MostActiveDayEarliestMax ==
    Summarized =>
        IF data = <<>>
        THEN summary.mostActiveDay = [date |-> EmptyStr, count |-> 0]
        ELSE /\ \E i \in 1..Len(data) : data[i] = summary.mostActiveDay
             /\ \A i \in 1..Len(data) :
                   /\ data[i].count <= summary.mostActiveDay.count
                   /\ data[i].count = summary.mostActiveDay.count
                        => ~StrLess(data[i].date, summary.mostActiveDay.date)

\* C10 witness: two days tie for the highest count.
C10_Witness ==
    /\ Summarized
    /\ \E i, j \in 1..Len(data) :
          /\ i # j
          /\ data[i].count = summary.mostActiveDay.count
          /\ data[j].count = summary.mostActiveDay.count


-----------------------------------------------------------------------------
(* The grid and the merge as the specification words them. *)

InRangeCells(grid) ==
    SelectSeq(Flatten([w \in 1..Len(grid) |-> grid[w]]), LAMBDA c : c.inRange)

\* the dates start..end, once each, ascending
IsExactlyRange(dates, o) ==
    /\ Len(dates) = ParseUTC(o.endDate) - ParseUTC(o.startDate) + 1
    /\ \A i \in 1..Len(dates) : dates[i] = ToISODate(ParseUTC(o.startDate) + (i - 1))

\* C1: every week column holds exactly 7 consecutive days, and the in-range
\* cells are exactly the dates start..end, once each and ascending, so that
\* the first is range.start and the last is range.end.
C1_GridCoversRangeExactly ==
    /\ svg.rendered =>
          /\ \A w \in 1..Len(svg.weeks) :
                /\ Len(svg.weeks[w]) = 7
                /\ \A d \in 1..6 : svg.weeks[w][d + 1] = svg.weeks[w][d] + 1
          /\ IsExactlyRange([i \in 1..Len(svg.cells) |-> svg.cells[i].date], opts)
          /\ svg.cells[1].date = opts.startDate
          /\ svg.cells[Len(svg.cells)].date = opts.endDate
    /\ dom.rendered =>
          /\ \A w \in 1..Len(dom.grid) :
                /\ Len(dom.grid[w]) = 7
                /\ \A d \in 1..6 : dom.grid[w][d + 1].day = dom.grid[w][d].day + 1
          /\ LET cells == InRangeCells(dom.grid)
             IN  /\ IsExactlyRange([i \in 1..Len(cells) |-> cells[i].date], opts)
                 /\ cells[1].date = opts.startDate
                 /\ cells[Len(cells)].date = opts.endDate

\* C1 witness: both builders ran on a range that starts inside a week, ends
\* on the first day of a later week and crosses from February into March.
C1_Witness ==
    /\ svg.rendered
    /\ dom.rendered
    /\ Len(svg.weeks) >= 2
    /\ svg.weeks[1][1] < ParseUTC(opts.startDate)
    /\ svg.weeks[Len(svg.weeks)][1] = ParseUTC(opts.endDate)
    /\ opts.startDate[2] = 2
    /\ opts.endDate[2] = 3

DatesOf(entries) == {entries[i].date : i \in 1..Len(entries)}

RECURSIVE SumOn(_, _)
\* the sum of the counts that entries give for date
SumOn(entries, date) ==
    IF entries = <<>> THEN 0
    ELSE (IF Head(entries).date = date THEN Head(entries).count ELSE 0)
         + SumOn(Tail(entries), date)

IsPointwiseSum(out, datasets) ==
    /\ DatesOf(out) = DatesOf(Flatten(datasets))
    /\ Len(out) = Cardinality(DatesOf(out))
    /\ \A i \in 1..Len(out) : out[i].count = SumOn(Flatten(datasets), out[i].date)
    /\ \A i \in 1..Len(out) - 1 : StrLess(out[i].date, out[i + 1].date)

\* C4: merging is pointwise summation, one entry per date of any input,
\* sorted by date; hence merge([a,b]) = merge([b,a]),
\* merge([merge([a,b]),c]) = merge([a,merge([b,c])]) and merge([]) = [].
C4_MergeIsPointwiseSum ==
    /\ pc \in {"combined", "merged"} =>
          /\ IsPointwiseSum(combined, allData)
          /\ Len(allData) = 0 => combined = <<>>
    /\ pc = "combined" /\ Len(allData) >= 2 =>
          LET a == allData[1]
              b == allData[2]
          IN  /\ MergeDatasets(<<a, b>>) = MergeDatasets(<<b, a>>)
              /\ Len(allData) = 3 =>
                    MergeDatasets(<<MergeDatasets(<<a, b>>), allData[3]>>)
                        = MergeDatasets(<<a, MergeDatasets(<<b, allData[3]>>)>>)
    /\ pc = "merged" /\ Len(allData) >= 2 =>
          LET a == allData[1]
              b == allData[2]
          IN  /\ mergeActivityData(a \o b) = mergeActivityData(b \o a)
              /\ Len(allData) = 3 =>
                    mergeActivityData(mergeActivityData(a \o b) \o allData[3])
                        = mergeActivityData(a \o mergeActivityData(b \o allData[3]))

\* C4 witness: three series were combined, the first starts on a later date
\* than the second, and some date has a positive count in two of them.
C4_Witness ==
    /\ pc = "combined"
    /\ Len(allData) = 3
    /\ allData[1] # <<>>
    /\ allData[2] # <<>>
    /\ StrLess(allData[2][1].date, allData[1][1].date)
    /\ \E i \in 1..Len(combined) :
          /\ MapGetOr0(allData[1], combined[i].date) > 0
          /\ MapGetOr0(allData[3], combined[i].date) > 0
          /\ combined[i].count > MapGetOr0(allData[1], combined[i].date)

\* the level the specification gives count against the series maximum
IsBucket(level, count, maxCountInSeries) ==
    LET m == Max(maxCountInSeries, 1)
    IN  /\ level = 0 <=> count = 0
        /\ level = 1 <=> (count > 0 /\ 4 * count <= m)
        /\ level = 2 <=> (4 * count > m /\ 2 * count <= m)
        /\ level = 3 <=> (2 * count > m /\ 4 * count <= 3 * m)
        /\ level = 4 <=> (count > 0 /\ 4 * count > 3 * m)

LevelsFollowBuckets(cells, entries) ==
    LET m == MaxSeq(Counts(entries), 0)
    IN  /\ \A i \in 1..Len(cells) :
              /\ IsBucket(cells[i].level, cells[i].count, m)
              /\ cells[i].count = 0 => cells[i].level = 0
              /\ (cells[i].count = m /\ m >= 1) => cells[i].level = 4
        /\ \A i, j \in 1..Len(cells) :
              cells[i].count <= cells[j].count => cells[i].level <= cells[j].level

\* C5: the level of a count is 0 for 0, else 1, 2, 3 or 4 as count / max(series
\* maximum, 1) is at most 0.25, 0.5, 0.75 or above; so 0 gives 0, the maximum
\* gives 4, and the level does not decrease as the count grows.
C5_IntensityBuckets ==
    /\ svg.rendered => LevelsFollowBuckets(svg.cells, gdata)
    /\ dom.rendered => LevelsFollowBuckets(InRangeCells(dom.grid), gdata)

\* C5 witness: a rendered cell sits exactly on the 0.25 threshold beside the
\* cell of the series maximum.
C5_Witness ==
    /\ svg.rendered
    /\ dom.rendered
    /\ \E i, j \in 1..Len(svg.cells) :
          /\ svg.cells[i].count > 0
          /\ 4 * svg.cells[i].count = svg.cells[j].count
          /\ svg.cells[j].count = svg.maxCount
          /\ svg.cells[i].level = 1
          /\ svg.cells[j].level = 4


-----------------------------------------------------------------------------
(* A cached series that may hold explicit zero entries, summarized and     *)
(* drawn over the range of its query.                                       *)

\* f[d] = -1: no entry for d; f[d] = 0: the stored zero
SeriesWithZeros(q) ==
    LET days == ParseUTC(q.startDate)..ParseUTC(q.endDate)
    IN  {SelectSeq([i \in 1..Cardinality(days) |->
                        [date  |-> ToISODate(ParseUTC(q.startDate) + (i - 1)),
                         count |-> f[ParseUTC(q.startDate) + (i - 1)]]],
                   LAMBDA e : e.count >= 0) : f \in [days -> -1..1]}

InitZero ==
    /\ query \in Queries
    /\ data \in SeriesWithZeros(query)
    /\ commits = <<>>
    /\ summary = NoSummary
    /\ pc = "idle"
    /\ gdata = data
    /\ opts \in {[startDate |-> query.startDate, endDate |-> query.endDate,
                  weekStart |-> ws] : ws \in {0, 1}}
    /\ svg = NoSvg
    /\ dom = NoDom
    /\ MergeIdle
    /\ ExtraIdle

NextZero == GetActivitySummaryCached \/ GenerateHeatmapSVG \/ CalendarBuildGrid

SpecZero == InitZero /\ [][NextZero]_vars

StripZeros(s) == SelectSeq(s, LAMBDA e : e.count # 0)

\* C11: a stored zero and a missing entry are treated identically: the summary
\* and every grid cell of a series with explicit {d, 0} entries equal those of
\* the same series without them.
C11_StoredZeroSameAsMissing ==
    /\ Summarized =>
          LET other == Summarize(StripZeros(data))
          IN  /\ summary.longestStreak = other.longestStreak
              /\ summary.currentStreak = other.currentStreak
              /\ summary.activeDays = other.activeDays
              /\ summary.averageCommitsPerDay = other.averageCommitsPerDay
              /\ summary.totalCommits = other.totalCommits
    /\ svg.rendered => svg.cells = generateHeatmapSVG(StripZeros(gdata), opts).cells
    /\ dom.rendered => dom.grid = buildGrid(StripZeros(gdata), opts).grid

\* the grid half of C11 alone
GridStoredZeroSameAsMissing ==
    /\ svg.rendered => svg.cells = generateHeatmapSVG(StripZeros(gdata), opts).cells
    /\ dom.rendered => dom.grid = buildGrid(StripZeros(gdata), opts).grid

-----------------------------------------------------------------------------
(* Inputs of the date utilities. *)

Engines == {"rollover", "strict"}

Texts ==
    {[shape |-> "YYYY-MM-DD", f |-> <<y, m, d>>] :
        y \in {2023, 2024}, m \in {0, 1, 2, 12, 13}, d \in {0, 1, 28, 29, 30, 31, 32}}
    \cup {[shape |-> "YYYY-MM", f |-> <<y, m, 0>>] : y \in {2023, 2024}, m \in {0, 1, 12, 13}}
    \cup {[shape |-> "not-a-date", f |-> EmptyStr], [shape |-> "", f |-> EmptyStr]}

\* days around the turn of a month, of a leap day, of a year, of the epoch,
\* and the last day whose year has four digits with the day after it
UtilDays ==
    (ParseUTC(<<2024, 2, 28>>)..ParseUTC(<<2024, 3, 1>>))
    \cup (ParseUTC(<<2023, 12, 31>>)..ParseUTC(<<2024, 1, 1>>))
    \cup (ParseUTC(<<2023, 2, 28>>)..ParseUTC(<<2023, 3, 1>>))
    \cup {-1, 0}
    \cup {ParseUTC(<<9999, 12, 31>>), ParseUTC(<<9999, 12, 31>>) + 1}

\* midnight and noon
UtilDates == {[day |-> n, ms |-> ms] : n \in UtilDays, ms \in {0, 43200000}}

InitUtil ==
    /\ util \in {[op |-> "none", engine |-> e, text |-> t, date |-> d,
                  str |-> NoText, res |-> NoResult] :
                    e \in Engines, t \in Texts, d \in UtilDates}
    /\ pc = "idle"
    /\ thrown = ""
    /\ CacheIdle
    /\ FetchIdle
    /\ HttpIdle
    /\ LateIdle
    /\ AggregatorIdle
    /\ MergeIdle
    /\ GridIdle

NextUtil == ParseDate \/ FormatDateISO \/ ParseFormatted

SpecUtil == InitUtil /\ [][NextUtil]_vars

ParseDateCalled == util.op = "parseDate"

\* C12: parseDate returns a date only for a string of the shape YYYY-MM-DD
\* that names a real calendar day; for every other string it throws.
C12_ParseAcceptsOnlyRealDays ==
    ParseDateCalled =>
        (~util.res.threw <=>
            (util.text.shape = "YYYY-MM-DD" /\ IsRealDate(util.text.f)))

\* a calendar date: midnight UTC of a day whose year is written with four digits
IsCalendarDate(date) == date.ms = 0 /\ ToISODate(date.day)[1] \in 0..9999

\* C13: for every calendar date d, formatDateISO(d) is a YYYY-MM-DD string
\* and parseDate of that string returns d.
C13_FormatParseRoundTrip ==
    IsCalendarDate(util.date) =>
        /\ util.op \in {"formatDateISO", "roundTrip"} =>
              /\ util.str.shape = "YYYY-MM-DD"
              /\ IsRealDate(util.str.f)
              /\ ParseUTC(util.str.f) = util.date.day
        /\ util.op = "roundTrip" => (~util.res.threw /\ util.res.date = util.date)

\* the leap day 2024-02-29 has been formatted and parsed back
C13_Witness ==
    /\ util.op = "roundTrip"
    /\ util.date = [day |-> ParseUTC(<<2024, 2, 29>>), ms |-> 0]
    /\ util.str = [shape |-> "YYYY-MM-DD", f |-> <<2024, 2, 29>>]
    /\ ~util.res.threw

-----------------------------------------------------------------------------
(* Grid start and number of week columns. *)

\* the latest day <= start whose weekday is weekStart
IsGridStart(g, o) ==
    /\ g <= ParseUTC(o.startDate)
    /\ ParseUTC(o.startDate) - g <= 6
    /\ GetUTCDay(g) = o.weekStart
    /\ \A n \in (g + 1)..ParseUTC(o.startDate) : GetUTCDay(n) # o.weekStart

\* ceil((daysBetween(g, range.end) + 1) / 7)
ColumnsFrom(g, o) == ((ParseUTC(o.endDate) - g + 1) + 6) \div 7

\* C14: the grid starts at the latest date <= range.start whose weekday is
\* weekStart, at most 6 days back, and has ceil((daysBetween(gridStart,
\* range.end) + 1) / 7) week columns; the single-day range on Saturday
\* 2024-06-15 with weekStart 0 gives one column whose only in-range cell is in
\* row 6.
C14_GridStartAndColumns ==
    /\ svg.rendered =>
          /\ Len(svg.weeks) >= 1
          /\ IsGridStart(svg.weeks[1][1], opts)
          /\ Len(svg.weeks) = ColumnsFrom(svg.weeks[1][1], opts)
          /\ opts = SaturdayOnly =>
                /\ Len(svg.weeks) = 1
                /\ Len(svg.cells) = 1
                /\ svg.cells[1].col = 0 /\ svg.cells[1].row = 6
                /\ svg.cells[1].date = <<2024, 6, 15>>
    /\ dom.rendered =>
          /\ Len(dom.grid) >= 1
          /\ IsGridStart(dom.grid[1][1].day, opts)
          /\ Len(dom.grid) = ColumnsFrom(dom.grid[1][1].day, opts)
          /\ opts = SaturdayOnly =>
                /\ Len(dom.grid) = 1
                /\ \A r \in 1..7 : dom.grid[1][r].inRange <=> r = 7

\* both builders have drawn the Saturday-only range, whose start was walked
\* back six days to the Sunday before
C14_Witness ==
    /\ svg.rendered /\ dom.rendered
    /\ opts = SaturdayOnly
    /\ ParseUTC(opts.startDate) - svg.weeks[1][1] = 6
    /\ Len(svg.weeks) = 1

-----------------------------------------------------------------------------
(* Month labels: ranges that start in the second half of January 2024 and  *)
(* run up to March, with cells of 10 and of 11 pixels.                     *)

LabelBase == <<2024, 1, 18>>

LabelOpts ==
    {[startDate     |-> ToISODate(ParseUTC(LabelBase) + s),
      endDate       |-> ToISODate(ParseUTC(LabelBase) + s + n),
      weekStart     |-> ws,
      cellSize      |-> c,
      cellGap       |-> 3,
      showDayLabels |-> dl,
      grid          |-> [cellSize |-> c, gap |-> 3]] :
        s \in 0..MaxLabelStart, n \in 0..MaxLabelSpan, ws \in {0, 1},
        c \in {10, 11}, dl \in BOOLEAN}

InitLabels ==
    /\ opts \in LabelOpts
    /\ gdata = <<>>
    /\ svg = NoSvg
    /\ dom = NoDom
    /\ pc = "idle"
    /\ AggregatorIdle
    /\ MergeIdle
    /\ ExtraIdle

NextLabels == GenerateHeatmapSVG \/ CalendarBuildGrid

SpecLabels == InitLabels /\ [][NextLabels]_vars

\* the labels of the SVG by column (counted from 1) and month
SvgLabelCols ==
    LET o  == WithDefaults(opts)
        ww == o.cellSize + o.cellGap
        x0 == IF o.showDayLabels THEN 32 ELSE 0
    IN  [i \in 1..Len(svg.labels) |->
            [col |-> (svg.labels[i].x - x0) \div ww + 1, month |-> svg.labels[i].month]]

DomLabelCols ==
    LET ww == ThemeGrid(opts).cellSize + ThemeGrid(opts).gap
    IN  [i \in 1..Len(dom.labels) |->
            [col |-> dom.labels[i].x \div ww + 1, month |-> dom.labels[i].month]]

\* the month of the first day of each column
SvgColumnMonths == [w \in 1..Len(svg.weeks) |-> GetUTCMonth(svg.weeks[w][1])]
DomColumnMonths == [w \in 1..Len(dom.grid) |-> GetUTCMonth(dom.grid[w][1].day)]

SvgWeekWidth == WithDefaults(opts).cellSize + WithDefaults(opts).cellGap
DomWeekWidth == ThemeGrid(opts).cellSize + ThemeGrid(opts).gap

\* column w is the first column of its month
NewMonthAt(fm, w) == w = 1 \/ fm[w] # fm[w - 1]

LabelledAt(L, w) == \E i \in 1..Len(L) : L[i].col = w

LabelsBefore(L, w) == {i \in 1..Len(L) : L[i].col < w}

\* the last label emitted left of column w
LastBefore(L, w) ==
    CHOOSE i \in LabelsBefore(L, w) : \A j \in LabelsBefore(L, w) : L[j].col <= L[i].col

\* column w is at least the minimum spacing right of the last label before it
FarEnough(L, w, ww) ==
    \/ LabelsBefore(L, w) = {}
    \/ (w - L[LastBefore(L, w)].col) * ww >= MinLabelSpacing(ww)

LabelsSpaced(L, ww) ==
    \A i, j \in 1..Len(L) :
        i < j => (L[j].col - L[i].col) * ww >= MinLabelSpacing(ww)

\* every label names the month of its column
LabelsNameColumns(L, fm) ==
    \A i \in 1..Len(L) : L[i].col \in 1..Len(fm) /\ L[i].month = fm[L[i].col]

\* labels only where a month is first met, and there exactly when far enough
LabelsOnlyAtFirstColumns(L, fm, ww) ==
    /\ LabelsNameColumns(L, fm)
    /\ \A i \in 1..Len(L) : NewMonthAt(fm, L[i].col)
    /\ \A w \in 1..Len(fm) : NewMonthAt(fm, w) => (LabelledAt(L, w) <=> FarEnough(L, w, ww))
    /\ LabelsSpaced(L, ww)

\* a label at every column that is far enough and whose month is not the
\* month labelled last
LabelsAtFirstFreeColumns(L, fm, ww) ==
    /\ LabelsNameColumns(L, fm)
    /\ \A w \in 1..Len(fm) :
          LabelledAt(L, w) <=>
              \/ LabelsBefore(L, w) = {}
              \/ fm[w] # L[LastBefore(L, w)].month /\ FarEnough(L, w, ww)
    /\ LabelsSpaced(L, ww)

-----------------------------------------------------------------------------
(* Ranges in either order, handed to the aggregator and to the renderers.  *)

RangeWindow == {ToISODate(ParseUTC(FirstDay) + k) : k \in 0..MaxSpan}

InitRange ==
    /\ query \in {[startDate |-> a, endDate |-> b] :
                    a \in RangeWindow \cup {EmptyStr}, b \in RangeWindow \cup {EmptyStr}}
    /\ commits \in SeqsUpTo({[date |-> Missing],
                             [date |-> [kind |-> "str", d |-> FirstDay, t |-> "00:30:00Z"]]}, 2)
    /\ data = <<>>
    /\ summary = NoSummary
    /\ pc = "idle"
    /\ opts \in {[startDate |-> a, endDate |-> b, weekStart |-> ws] :
                    a \in RangeWindow, b \in RangeWindow, ws \in {0, 1}}
    /\ gdata = <<>>
    /\ svg = NoSvg
    /\ dom = NoDom
    /\ MergeIdle
    /\ ExtraIdle

NextRange ==
    \/ AggregateActivity
    \/ AggregateActivityRejected
    \/ GenerateHeatmapSVG
    \/ CalendarBuildGrid

SpecRange == InitRange /\ [][NextRange]_vars

Inverted(r) ==
    /\ r.startDate # EmptyStr
    /\ r.endDate # EmptyStr
    /\ StrLess(r.endDate, r.startDate)

\* the aggregator half of C16: an inverted range is rejected with the range
\* error and nothing aggregated, a one-day range is accepted
AggregatorRejectsInverted ==
    /\ Aggregated => ~Inverted(query)
    /\ (pc = "rejected" /\ Inverted(query)) =>
          thrown = "startDate must be before endDate" /\ data = <<>>
    /\ pc = "rejected" => (Inverted(query) \/ EmptyStr \in {query.startDate, query.endDate})

\* C16: a range with start > end is always rejected: aggregateActivity throws
\* before anything is looked up or fetched, and generateHeatmapSVG and
\* Calendar.build raise an error instead of emitting a grid; start = end is
\* accepted.
C16_InvertedRangeRejected ==
    /\ AggregatorRejectsInverted
    /\ svg.rendered => ~Inverted(opts)
    /\ dom.rendered => ~Inverted(opts)

-----------------------------------------------------------------------------
(* A cache of either copy, written, read and left to age.  The standalone  *)
(* cache is constructed with a default of 1000 ms and written with no TTL  *)
(* or 500 ms; the backend's is written with no TTL or 1 s.                 *)

Ttls(impl) == IF impl = "backend" THEN {Undefined, 1} ELSE {Undefined, 500}

Steps == {1, 500, 1000, BackendDefaultTtl * 1000}

InitCache ==
    /\ cache \in {NewCache("standalone", 1000), NewCache("backend", 0)}
    /\ pc = "idle"
    /\ thrown = ""
    /\ UtilIdle
    /\ FetchIdle
    /\ HttpIdle
    /\ LateIdle
    /\ AggregatorIdle
    /\ MergeIdle
    /\ GridIdle

NextCache ==
    \/ \E k \in Keys : CacheGet(k)
    \/ \E k \in Keys, v \in Values, ttl \in Ttls(cache.impl) : CacheSet(k, v, ttl)
    \/ \E k \in Keys : CacheDelete(k)
    \/ CacheClear
    \/ \E ms \in Steps : Advance(ms)

SpecCache == InitCache /\ [][NextCache]_vars

\* the time to live of a write, in milliseconds: its own if given, otherwise
\* the default of the cache
TtlMs(w) ==
    IF cache.impl = "backend"
    THEN (IF w.ttl = Undefined THEN BackendDefaultTtl ELSE w.ttl) * 1000
    ELSE IF w.ttl = Undefined THEN cache.defaultTtlMs ELSE w.ttl

\* C17: get(k) returns the value most recently set for k while the time does
\* not exceed the time of that set plus its TTL, and null at every later time,
\* for a key never set, and after delete(k) or clear(); deleting a key leaves
\* the other keys as they were.
C17_GetReturnsLiveValue ==
    cache.got # NoGot =>
        LET w == cache.written[cache.got.key]
        IN  cache.got.value =
                IF w # NoWrite /\ cache.now <= w.at + TtlMs(w) THEN w.value ELSE "null"

\* a get at the very instant an entry expires still returned its value
C17_Witness ==
    /\ cache.got.key = "a"
    /\ cache.got.value \in Values
    /\ cache.now = cache.written["a"].at + TtlMs(cache.written["a"])
    /\ cache.now > 0

-----------------------------------------------------------------------------
(* Responses of the GitHub API to the page requests of fetchPublicCommits. *)

FetchDay1 == <<2024, 6, 15>>
FetchDay2 == <<2024, 6, 16>>

RawCommit(d, login, name) ==
    [date |-> IF d = EmptyStr THEN Missing ELSE [kind |-> "str", d |-> d, t |-> "10:00:00Z"],
     login |-> login, name |-> name]

RawCommits ==
    {RawCommit(FetchDay1, "alice", "Alice"),
     RawCommit(FetchDay2, "bob", "Bob"),
     RawCommit(FetchDay1, "", "Carol"),
     RawCommit(FetchDay2, "", ""),
     RawCommit(EmptyStr, "alice", "Alice")}

\* a full page: perPage commits of one author and day, or all but the last
FullBodies ==
    {<<[n |-> perPage, commit |-> RawCommit(FetchDay1, "alice", "Alice")]>>,
     <<[n |-> perPage - 1, commit |-> RawCommit(FetchDay2, "bob", "Bob")],
       [n |-> 1, commit |-> RawCommit(FetchDay1, "alice", "Alice")]>>}

\* a last page: up to two commits
ShortBodies ==
    {<<>>}
    \cup {<<[n |-> 1, commit |-> c]>> : c \in RawCommits}
    \cup {<<[n |-> 1, commit |-> c], [n |-> 1, commit |-> e]>> : c \in RawCommits, e \in RawCommits}

Responses ==
    {[ok |-> TRUE, status |-> 200, statusText |-> "OK", remaining |-> "58", body |-> b] :
        b \in FullBodies \cup ShortBodies}
    \cup {[ok |-> FALSE, status |-> 403, statusText |-> "Forbidden", remaining |-> "0", body |-> <<>>],
          [ok |-> FALSE, status |-> 429, statusText |-> "Too Many Requests", remaining |-> "0", body |-> <<>>],
          [ok |-> FALSE, status |-> 403, statusText |-> "Forbidden", remaining |-> "59", body |-> <<>>],
          [ok |-> FALSE, status |-> 404, statusText |-> "Not Found", remaining |-> "59", body |-> <<>>],
          [ok |-> FALSE, status |-> 500, statusText |-> "Internal Server Error", remaining |-> "null", body |-> <<>>]}

InitFetch ==
    /\ fetch = NoFetch
    /\ pc = "idle"
    /\ thrown = ""
    /\ UtilIdle
    /\ CacheIdle
    /\ HttpIdle
    /\ LateIdle
    /\ AggregatorIdle
    /\ MergeIdle
    /\ GridIdle

NextFetch ==
    \/ \E ok \in BOOLEAN : FetchPublicCommits(ok)
    \/ \E res \in Responses : FetchResponse(res)

SpecFetch == InitFetch /\ [][NextFetch]_vars

\* the commits of the fetched pages that carry a date
Dated(runs) == SelectSeq(runs, LAMBDA r : r.commit.date.kind # "missing")

CommitsOn(runs, d) ==
    SumSeq([i \in 1..Len(runs) |-> IF runs[i].commit.date.d = d THEN runs[i].n ELSE 0])

CommitsBy(runs, login) ==
    SumSeq([i \in 1..Len(runs) |-> IF LoginOf(runs[i].commit) = login THEN runs[i].n ELSE 0])

\* result is the aggregation of runs: one entry per day with commits, in date
\* order, and one entry per author of a dated commit, most commits first
IsAggregationOf(result, runs) ==
    LET ds == Dated(runs)
    IN  /\ \A i \in 1..Len(result.data) :
              /\ result.data[i].count > 0
              /\ result.data[i].count = CommitsOn(ds, result.data[i].date)
        /\ \A i \in 1..Len(ds) :
              \E j \in 1..Len(result.data) : result.data[j].date = ds[i].commit.date.d
        /\ \A i, j \in 1..Len(result.data) :
              i < j => StrLess(result.data[i].date, result.data[j].date)
        /\ \A i \in 1..Len(result.authors) :
              /\ result.authors[i].commits > 0
              /\ result.authors[i].commits = CommitsBy(ds, result.authors[i].login)
        /\ \A i \in 1..Len(ds) :
              \E j \in 1..Len(result.authors) : result.authors[j].login = LoginOf(ds[i].commit)
        /\ \A i, j \in 1..Len(result.authors) :
              i < j => /\ result.authors[i].login # result.authors[j].login
                       /\ result.authors[i].commits >= result.authors[j].commits

FailedRequest == fetch.pc \in {"returned", "threw"} /\ ~fetch.res.ok

\* C18: when a page request fails with x-ratelimit-remaining '0' the function
\* returns, without error, the aggregation of the commits of the pages fetched
\* so far; when it fails otherwise it throws 'GitHub API error: <status>
\* <statusText>' and returns no data.
C18_RateLimitStopsOtherFailureThrows ==
    FailedRequest =>
        IF fetch.res.remaining = "0"
        THEN /\ fetch.pc = "returned"
             /\ fetch.error = NoError
             /\ IsAggregationOf(fetch.result, fetch.commits)
             /\ fetch.commits = <<>> => fetch.result = [data |-> <<>>, authors |-> <<>>]
        ELSE /\ fetch.pc = "threw"
             /\ fetch.error = [message |-> "GitHub API error: ", status |-> fetch.res.status,
                               statusText |-> fetch.res.statusText]
             /\ fetch.result = NoFetchResult

\* the third page request was refused for the rate limit after a full page
\* and another, and the commits of both pages were returned aggregated
C18_Witness ==
    /\ fetch.pc = "returned"
    /\ ~fetch.res.ok
    /\ fetch.res.remaining = "0"
    /\ fetch.page = 3
    /\ Len(fetch.result.data) = 2
    /\ Len(fetch.result.authors) = 2

-----------------------------------------------------------------------------
(* Commits with the fields the aggregator must not let through.            *)

PrivQuery == [startDate |-> FirstDay, endDate |-> ToISODate(ParseUTC(FirstDay) + 1)]

\* what a commit says besides its author date
PrivDetails ==
    {[sha |-> "a1f3", message |-> "fix login", name |-> "Alice", email |-> "alice@example.com",
      login |-> "alice"],
     [sha |-> "b2e4", message |-> "rotate the API key", name |-> "Bob", email |-> "bob@example.com",
      login |-> "bob"],
     [sha |-> "a1f3", message |-> "wip", name |-> "Bob", email |-> "", login |-> ""]}

PrivDates ==
    {Missing,
     [kind |-> "str", d |-> PrivQuery.startDate, t |-> "23:30:00Z"],
     [kind |-> "str", d |-> PrivQuery.endDate, t |-> "00:30:00Z"]}

PrivCommits ==
    {[date |-> ts, sha |-> p.sha, message |-> p.message, name |-> p.name,
      email |-> p.email, login |-> p.login] : ts \in PrivDates, p \in PrivDetails}

InitPrivacy ==
    /\ query = PrivQuery
    /\ commits \in SeqsUpTo(PrivCommits, MaxPrivCommits)
    /\ data = <<>>
    /\ summary = NoSummary
    /\ pc = "idle"
    /\ MergeIdle
    /\ GridIdle
    /\ ExtraIdle

NextPrivacy ==
    \/ AggregateActivity
    \/ GetActivitySummary
    \/ \E n \in 1..2 : AggregateCombinedFetched(n)

SpecPrivacy == InitPrivacy /\ [][NextPrivacy]_vars

TimesDated(cs, ts) == Cardinality({i \in 1..Len(cs) : cs[i].date = ts})

\* the commit lists with the same multiset of author dates as cs
SameAuthorDates(cs) ==
    {other \in [1..Len(cs) -> PrivCommits] :
        \A ts \in PrivDates : TimesDated(other, ts) = TimesDated(cs, ts)}

OnlyDateAndCount(series) ==
    \A i \in 1..Len(series) : DOMAIN series[i] = {"date", "count"}

\* C19: what the aggregator returns depends only on the author dates of the
\* fetched commits: every commit list with the same multiset of author dates,
\* whatever its hashes, messages, names, emails and logins, gives the same
\* data, summary and combined series, and every item of a returned series has
\* a date and a count and nothing else.
C19_OutputDependsOnlyOnDates ==
    /\ Aggregated =>
          /\ OnlyDateAndCount(data)
          /\ \A other \in SameAuthorDates(commits) : aggregateByDate(other) = data
    /\ Summarized =>
          /\ DOMAIN summary.mostActiveDay = {"date", "count"}
          /\ \A other \in SameAuthorDates(commits) :
                Summarize(aggregateByDate(other)) = summary
    /\ pc = "combined" =>
          /\ OnlyDateAndCount(combined)
          /\ \A other \in SameAuthorDates(commits) :
                MergeDatasets([i \in 1..Len(allData) |-> aggregateByDate(other)]) = combined

\* two commits of one day that share a hash and differ in author and message
\* have been counted as two
C19_Witness ==
    /\ Aggregated
    /\ Len(commits) = 2
    /\ commits[1].sha = commits[2].sha
    /\ commits[1].login # commits[2].login
    /\ commits[1].date.d = commits[2].date.d
    /\ commits[1].date.kind = "str"
    /\ data = <<[date |-> commits[1].date.d, count |-> 2]>>
    /\ Cardinality(SameAuthorDates(commits)) > 1

-----------------------------------------------------------------------------
(* GET /activity with the two dates in either order and the GitHub API     *)
(* answering or failing.                                                   *)

InitHttp ==
    /\ query \in {[startDate |-> a, endDate |-> b] : a \in RangeWindow, b \in RangeWindow}
    /\ commits \in SeqsUpTo({[date |-> Missing],
                             [date |-> [kind |-> "str", d |-> FirstDay, t |-> "00:30:00Z"]]}, 2)
    /\ data = <<>>
    /\ summary = NoSummary
    /\ pc = "idle"
    /\ MergeIdle
    /\ GridIdle
    /\ ExtraIdle

NextHttp == \E upstreamFails \in BOOLEAN : GetActivity(upstreamFails)

SpecHttp == InitHttp /\ [][NextHttp]_vars

Responded == http # NoHttp

\* C20: GET /activity with startDate after endDate is answered with status 400
\* and error InvalidDateRange, message 'startDate must be before endDate';
\* status 500 AggregationFailed answers only a failed fetch from the GitHub API.
C20_InvertedRangeIs400 ==
    Responded =>
        /\ Inverted(query) =>
              /\ http.status = 400
              /\ http.error = "InvalidDateRange"
              /\ http.message = "startDate must be before endDate"
        /\ (http.status = 500 /\ http.error = "AggregationFailed") =>
              http.upstream = "failed"

\* what the handler does answer: every error is a 500 AggregationFailed that
\* carries the message of the Error, and a valid query is answered with 200
HandlerAnswersEveryErrorWith500 ==
    Responded =>
        IF validateQueryOptions(query) # "" \/ http.upstream = "failed"
        THEN http.status = 500 /\ http.error = "AggregationFailed" /\ http.message = thrown
        ELSE http.status = 200 /\ http.data = data

-----------------------------------------------------------------------------
(* The backend service: one aggregator, queries of one repository and one  *)
(* range that differ in author, branch and path, and the answers of the    *)
(* GitHub API to a page request.                                           *)

BaseOptions ==
    [repository |-> "octo/heat", startDate |-> FirstDay,
     endDate |-> ToISODate(ParseUTC(FirstDay) + 1),
     author |-> "", branch |-> "", path |-> ""]

AggQueries ==
    {[BaseOptions EXCEPT !.author = "alice", !.branch = "main"],
     [BaseOptions EXCEPT !.author = "alice::branch:main"],
     [BaseOptions EXCEPT !.author = "bob"],
     [BaseOptions EXCEPT !.repository = "default"]}

AggCommit(d) == [date |-> [kind |-> "str", d |-> d, t |-> "00:30:00Z"]]

AggPage(n, d) == <<[n |-> n, commit |-> AggCommit(d)]>>

\* listCommits resolves with a page (of 100 commits, or one that ends the loop)
\* and the headers x-ratelimit-remaining and x-ratelimit-reset (seconds), or
\* rejects (403: the limit is used up)
AggResponses ==
    {[ok |-> TRUE, body |-> AggPage(100, FirstDay),
      headers |-> [remaining |-> 4999, reset |-> 2]],
     [ok |-> TRUE, body |-> AggPage(100, FirstDay),
      headers |-> [remaining |-> 100, reset |-> 2]],
     [ok |-> TRUE, body |-> AggPage(1, ToISODate(ParseUTC(FirstDay) + 1)),
      headers |-> NoHeaders],
     [ok |-> FALSE, body |-> <<>>, headers |-> [remaining |-> 0, reset |-> 2]]}

\* the steps of the clock, in milliseconds
AggTicks == {1000}

InitBackend ==
    /\ agg = NewAggregator(1000, 1)
    /\ pc = "idle"
    /\ AggregatorIdle
    /\ MergeIdle
    /\ GridIdle
    /\ UtilIdle
    /\ thrown = ""
    /\ CacheIdle
    /\ FetchIdle
    /\ HttpIdle
    /\ fcal = NoDom
    /\ hm = NoHm

NextBackend ==
    \/ \E options \in AggQueries : AggregateActivityCall(options)
    \/ \E i \in 1..MaxInFlight : AggregateActivityAfterGet(i)
    \/ \E i \in 1..MaxInFlight : PaginateCommitsAfterCheck(i)
    \/ \E i \in 1..MaxInFlight, res \in AggResponses : PaginateCommitsResponse(i, res)
    \/ SetCache
    \/ \E key \in DOMAIN agg.store : DeleteCached(key)
    \/ \E ms \in AggTicks : Tick(ms)

SpecBackend == InitBackend /\ [][NextBackend]_vars

\* the calls of the state: the running ones and the one that ended last
AggCalls ==
    {agg.calls[i] : i \in {j \in 1..MaxInFlight : agg.calls[j].pc # "none"}}
    \cup (IF agg.last.pc # "none" /\ agg.last.error # "Error" THEN {agg.last} ELSE {})

HitReturned == agg.last.pc = "returned" /\ agg.last.cached.hit

\* C21: generateCacheKey is unique per query: two calls whose QueryOptions differ
\* in repository, startDate, endDate, author, branch or path never have the same
\* cache key, and the series a call returns from the cache was stored by a call
\* with the same QueryOptions
C21_KeyUniquePerQuery ==
    /\ \A c1, c2 \in AggCalls : c1.options # c2.options => c1.key # c2.key
    /\ HitReturned => agg.last.cached.options = agg.last.options

\* the last call has ended, and not by the Error of validateQueryOptions
Ended == agg.last.pc \in {"returned", "threw"} /\ agg.last.error # "Error"

\* the calls that stand inside fetchCommits
Fetching == {i \in 1..MaxInFlight : agg.calls[i].pc \in {"checked", "requested"}}

\* a call that did not find its key in the cache: it has issued requests from
\* page 1 on and, if it returned, has stored its result
FetchedAndStored(call) ==
    /\ ~call.cached.hit
    /\ call.requests >= 1 => call.firstPage = 1
    /\ call.pc = "returned" => call.requests >= 1 /\ call.sets = 1

\* C22 as stated: a call made after a call with the same key has succeeded,
\* before that call's entry expires and with no delete, clear or setCache in
\* between, returns the data of that call without a request and without a
\* limiter check; a call made with no live entry fetches and stores
C22_LaterCallsServedFromCache ==
    /\ (Ended /\ agg.last.after # {}) =>
            /\ agg.last.pc = "returned"
            /\ \A d \in agg.last.after : agg.last.result = d
            /\ agg.last.requests = 0 /\ agg.last.checks = 0
    /\ (Ended /\ agg.last.after = {}) => FetchedAndStored(agg.last)

\* C22 amended: a call made while the entry stored last under its key is live
\* (no later delete, clear or setCache) returns the data of that entry without
\* a request and without a limiter check; a call made with no such entry
\* fetches from page 1 and stores its result
C22_ServedFromLastStoredEntry ==
    /\ (Ended /\ agg.last.latest.hit) =>
            /\ agg.last.pc = "returned"
            /\ agg.last.result = agg.last.latest.data
            /\ agg.last.requests = 0 /\ agg.last.checks = 0 /\ agg.last.sets = 0
    /\ (Ended /\ ~agg.last.latest.hit) => FetchedAndStored(agg.last)
    /\ \A i \in Fetching : ~agg.calls[i].latest.hit

\* a call served from an entry that an earlier call fetched, after time has passed
C22_Witness ==
    /\ HitReturned
    /\ agg.last.latest.hit
    /\ agg.last.result # <<>>
    /\ agg.now = agg.last.cached.expires

Running == {i \in 1..MaxInFlight : agg.calls[i].pc # "none"}

\* a step in which a call ends by throwing AggregationError
FetchFails ==
    /\ Cardinality(Running') < Cardinality(Running)
    /\ agg'.last.pc = "threw"
    /\ agg'.last.error = "AggregationError"

\* C23: a call whose fetch fails (a rejected page request, or RateLimitError from
\* checkLimit) throws AggregationError, has stored nothing, and the step in
\* which it fails leaves the cache as it was; every call that did not get its
\* series from the cache starts at page 1
C23_FailedFetchLeavesCache ==
    /\ [](/\ (Ended /\ agg.last.pc = "threw") =>
                /\ agg.last.error = "AggregationError"
                /\ agg.last.cause \in {"RateLimitError", "RequestError"}
                /\ agg.last.sets = 0
          /\ \A c \in AggCalls :
                /\ c.requests >= 1 => c.firstPage = 1
                /\ ~c.latest.hit => ~c.cached.hit)
    /\ [][FetchFails => agg'.store = agg.store]_vars

\* the request of page 1 of a call is out, for the key of a call that failed
\* on page 2 and left no entry
C23_Witness ==
    /\ agg.last.pc = "threw"
    /\ agg.last.commits # <<>>
    /\ agg.last.key \notin DOMAIN agg.store
    /\ \E i \in Running :
          /\ agg.calls[i].key = agg.last.key
          /\ agg.calls[i].pc = "requested"
          /\ agg.calls[i].page = 1

\* the limiter holds what the headers of the last answer said
LimiterFollowsHeaders ==
    /\ agg.lastHeaders.remaining # Undefined =>
            agg.limiter.remaining = agg.lastHeaders.remaining
    /\ agg.lastHeaders.reset # Undefined =>
            agg.limiter.resetAt = agg.lastHeaders.reset * 1000

\* the limiter's record says the limit is near exhaustion and not yet reset
RecordedLimited == agg.limiter.remaining <= 100 /\ agg.now < agg.limiter.resetAt

\* every page request of the call came after a checkLimit of its own
CheckedBeforeEveryRequest(c) ==
    c.checks = c.requests + (IF c.pc = "checked" \/ c.cause = "RateLimitError"
                             THEN 1 ELSE 0)

\* no page request of any call was issued while the limiter's record was limited
NoRequestWhileLimited == \A c \in AggCalls : ~c.limited

\* C24: paginateCommits calls checkLimit before every page request and updates
\* the limiter from the headers of every answer, so no request is issued while
\* the limiter's recorded remaining is <= 100 and the time is before its
\* recorded resetAt; checkLimit throws exactly in that state
C24_NoRequestWhileLimited ==
    /\ \A c \in AggCalls : CheckedBeforeEveryRequest(c)
    /\ LimiterFollowsHeaders
    /\ NoRequestWhileLimited
    /\ checkLimit(agg.limiter, agg.now) <=> ~RecordedLimited
    /\ \A i \in Running :
          (agg.calls[i].pc = "checked" /\ agg.calls[i].checkThrew) =>
              agg.limiter.remaining <= 100

-----------------------------------------------------------------------------
(* Entries of the data array whose dates lie outside the rendered range.   *)

\* the entries whose dates lie in [startDate, endDate]
InRangeEntries(entries, o) ==
    SelectSeq(entries, LAMBDA e : /\ ParseUTC(o.startDate) <= ParseUTC(e.date)
                                  /\ ParseUTC(e.date) <= ParseUTC(o.endDate))

\* a cell without its level
Placed(cells) ==
    [i \in 1..Len(cells) |-> [col |-> cells[i].col, row |-> cells[i].row,
                              date |-> cells[i].date, count |-> cells[i].count]]

CellCounts(cells) == [i \in 1..Len(cells) |-> cells[i].count]

\* C25 as stated: the entries outside [startDate, endDate] change neither the
\* level of a cell (the in-range day with the largest positive count is level
\* 4) nor the header total, which is the sum of the counts of the cells
C25_OutOfRangeDataIgnored ==
    svg.rendered =>
        LET shown == generateHeatmapSVG(InRangeEntries(gdata, opts), opts)
            top   == MaxSeq(CellCounts(svg.cells), 0)
        IN  /\ svg.cells = shown.cells
            /\ \A i \in 1..Len(svg.cells) :
                  (svg.cells[i].count = top /\ top > 0) => svg.cells[i].level = 4
            /\ svg.totalCount = shown.totalCount
            /\ svg.totalCount = SumSeq(CellCounts(svg.cells))

\* C25 amended: the entries outside the range change neither the place nor the
\* count of a cell, but the level of a cell is its bucket against the maximum
\* over all entries of the data array and the header total is the sum over all
\* entries, so it is at least the sum of the counts of the cells
C25_LevelsAndTotalOverWholeData ==
    svg.rendered =>
        LET shown == generateHeatmapSVG(InRangeEntries(gdata, opts), opts)
        IN  /\ Placed(svg.cells) = Placed(shown.cells)
            /\ \A i \in 1..Len(svg.cells) :
                  IsBucket(svg.cells[i].level, svg.cells[i].count,
                           MaxSeq(Counts(gdata), 0))
            /\ svg.totalCount = SumSeq(Counts(gdata))
            /\ svg.totalCount >= SumSeq(CellCounts(svg.cells))
            /\ svg.totalCount = SumSeq(CellCounts(svg.cells))
                 + SumSeq(Counts(gdata)) - SumSeq(Counts(InRangeEntries(gdata, opts)))

\* a rendering whose busiest cell is below level 4 and whose header total is
\* above the sum of its cells, because of an entry outside the range
C25_Witness ==
    /\ svg.rendered
    /\ InRangeEntries(gdata, opts) # gdata
    /\ \E i \in 1..Len(svg.cells) :
          /\ svg.cells[i].count = MaxSeq(CellCounts(svg.cells), 0)
          /\ svg.cells[i].count > 0
          /\ svg.cells[i].level < 4
    /\ svg.totalCount > SumSeq(CellCounts(svg.cells))

-----------------------------------------------------------------------------
(* The three copies of the grid on the same input: ranges of up to three   *)
(* weeks that start in the second half of January 2024, cells of 10 pixels,*)
(* and commits around the turn of the month.                               *)

CopyOpts ==
    {o \in LabelOpts : /\ o.cellSize = 10
                       /\ ParseUTC(o.endDate) - ParseUTC(o.startDate) <= 21}

CopyData ==
    {<<>>}
    \cup {<<[date |-> <<2024, 1, 31>>, count |-> c],
            [date |-> <<2024, 2, 1>>, count |-> m]>> : c \in {1, 4}, m \in {0, 3}}

InitCopies ==
    /\ opts \in CopyOpts
    /\ gdata \in CopyData
    /\ svg = NoSvg
    /\ dom = NoDom
    /\ pc = "idle"
    /\ AggregatorIdle
    /\ MergeIdle
    /\ ExtraIdle

NextCopies == GenerateHeatmapSVG \/ CalendarBuildGrid \/ FrontendBuild

SpecCopies == InitCopies /\ [][NextCopies]_vars

\* the in-range cells of a grid of week columns, each with its column and row
PlacedCells(grid) ==
    LET cellAt(k) == grid[(k \div 7) + 1][(k % 7) + 1]
        all == [k \in 1..(7 * Len(grid)) |->
                   [col |-> (k - 1) \div 7, row |-> (k - 1) % 7,
                    date |-> cellAt(k - 1).date, count |-> cellAt(k - 1).count,
                    level |-> cellAt(k - 1).level, inRange |-> cellAt(k - 1).inRange]]
        kept == SelectSeq(all, LAMBDA c : c.inRange)
    IN  [i \in 1..Len(kept) |->
            [col |-> kept[i].col, row |-> kept[i].row, date |-> kept[i].date,
             count |-> kept[i].count, level |-> kept[i].level]]

FrontendLabelCols ==
    LET ww == ThemeGrid(opts).cellSize + ThemeGrid(opts).gap
    IN  [i \in 1..Len(fcal.labels) |->
            [col |-> fcal.labels[i].x \div ww + 1, month |-> fcal.labels[i].month]]

AllRendered == svg.rendered /\ dom.rendered /\ fcal.rendered

\* the three copies place the same cells with the same counts and levels
CopiesAgreeOnCells ==
    AllRendered =>
        /\ PlacedCells(dom.grid) = svg.cells
        /\ PlacedCells(fcal.grid) = svg.cells

\* the two copies of the standalone package label the same columns
StandaloneCopiesAgreeOnLabels ==
    (svg.rendered /\ dom.rendered) => SvgLabelCols = DomLabelCols

\* C26: for the same data, range, weekStart and cell geometry, generateHeatmapSVG,
\* the standalone Calendar and the frontend Calendar produce the same in-range
\* cells at the same columns and rows and label the same columns with the same
\* months
C26_ThreeCopiesAgree ==
    AllRendered =>
        /\ PlacedCells(dom.grid) = svg.cells
        /\ PlacedCells(fcal.grid) = svg.cells
        /\ SvgLabelCols = DomLabelCols
        /\ FrontendLabelCols = SvgLabelCols

-----------------------------------------------------------------------------
(* The Heatmap component: one component, the calls its owner makes on it,  *)
(* and the responses of the endpoint in whatever order they arrive.        *)

\* config.queryOptions
HmQueryOptions == {<<>>, "author" :> "alice"}

\* the arguments of updateQuery
HmOptions == {"author" :> "bob", "branch" :> "main"}

\* the arguments of setAuthor, setBranch and setPath; "" stands for null
HmAuthors == {"alice", ""}

HmBranches == {"dev", ""}

HmPaths == {"src", ""}

\* json.data of a response
HmBodies ==
    {<<[date |-> <<2024, 1, 31>>, count |-> 1]>>,
     <<[date |-> <<2024, 2, 1>>, count |-> 3]>>}

\* how the promise of fetch settles: rejected, a status that is not ok, an
\* ok response with a JSON body, an ok response whose body is not JSON
HmResponses ==
    {[rejected |-> TRUE, ok |-> FALSE, data |-> <<>>, parses |-> FALSE],
     [rejected |-> FALSE, ok |-> FALSE, data |-> <<>>, parses |-> FALSE],
     [rejected |-> FALSE, ok |-> TRUE, data |-> <<>>, parses |-> FALSE]}
    \cup {[rejected |-> FALSE, ok |-> TRUE, data |-> d, parses |-> TRUE] :
            d \in HmBodies}

InitHeatmap ==
    /\ hm \in {NewHeatmap(q) : q \in HmQueryOptions}
    /\ agg = NoAgg
    /\ fcal = NoDom
    /\ pc = "idle"
    /\ AggregatorIdle
    /\ MergeIdle
    /\ GridIdle
    /\ UtilIdle
    /\ thrown = ""
    /\ CacheIdle
    /\ FetchIdle
    /\ HttpIdle

NextHeatmap ==
    \/ Load
    \/ \E options \in HmOptions : UpdateQuery(options)
    \/ \E author \in HmAuthors : SetAuthor(author)
    \/ \E branch \in HmBranches : SetBranch(branch)
    \/ \E path \in HmPaths : SetPath(path)
    \/ ClearFilters
    \/ \E i \in 1..MaxLoads, res \in HmResponses : HeatmapFetchSettles(i, res)
    \/ \E i \in 1..MaxLoads : HeatmapJsonSettles(i)
    \/ Destroy
    \/ MouseEnter
    \/ MouseLeave

SpecHeatmap == InitHeatmap /\ [][NextHeatmap]_vars

(* Claim vocabulary of the Heatmap component. *)

HmCalls == 1..Len(hm.requests)

\* every call of load has ended
AllSettled == \A i \in HmCalls : hm.requests[i].stage = "done"

\* what a call that has ended leaves in the container when nothing follows
ShownFor(request) ==
    IF request.outcome = "ok" THEN <<CalendarChild(request.body)>>
    ELSE <<ErrorChild>>

\* C27: once every load has settled, the container shows what the most
\* recently issued request returned, and the data is that request's data: a
\* slower response to an earlier call never overwrites the later one.
C27_LatestRequestWins ==
    (hm.exists /\ ~hm.destroyed /\ hm.requests # <<>> /\ AllSettled) =>
        LET latest == hm.requests[Len(hm.requests)]
        IN  /\ hm.container = ShownFor(latest)
            /\ latest.outcome = "ok" => hm.data = latest.body
            /\ latest.url = buildUrl(hm)

\* C28: after destroy() the container stays empty, no cell listener is
\* left and no tooltip is shown, whatever a load that was pending does when
\* it settles.
C28_DestroyedStaysEmpty ==
    hm.destroyed => hm.container = <<>> /\ ~hm.tooltip

\* the step in which call i ends in the catch block
LoadFails(i) ==
    /\ i \in HmCalls
    /\ hm.requests[i].stage # "done"
    /\ hm'.requests[i].stage = "done"
    /\ hm'.requests[i].outcome = "failed"

\* the step in which call i ends with render()
LoadSucceeds(i) ==
    /\ i \in HmCalls
    /\ hm.requests[i].stage # "done"
    /\ hm'.requests[i].stage = "done"
    /\ hm'.requests[i].outcome = "ok"

\* C29: a load that fails puts the error text in place of the content of
\* the container, calls onError once, and leaves the data and the current
\* query as they were; a load that succeeds replaces the data by the data of
\* its response and leaves exactly one calendar, rendered from it, in the
\* container.
C29_FailedAndSuccessfulLoad ==
    [][\A i \in 1..MaxLoads :
         /\ LoadFails(i) =>
              /\ hm'.container = <<ErrorChild>>
              /\ hm'.errors = hm.errors + 1
              /\ hm'.data = hm.data
              /\ hm'.currentQuery = hm.currentQuery
         /\ LoadSucceeds(i) =>
              /\ hm'.data = hm.requests[i].body
              /\ hm'.container = <<CalendarChild(hm.requests[i].body)>>
              /\ hm'.errors = hm.errors
              /\ hm'.currentQuery = hm.currentQuery]_vars

\* a load failed over content that a load before it had rendered, and a
\* load succeeded over the error text of a load that failed
C29_Witness ==
    /\ hm.errors >= 1
    /\ \E i, j \in HmCalls :
         /\ hm.requests[i].outcome = "failed"
         /\ hm.requests[j].outcome = "ok"
    /\ hm.data # <<>>
    /\ hm.container = <<ErrorChild>>

(* Claim vocabulary of the page loop of fetchPublicCommits. *)

\* the step in which the request for the next page goes out
NextPageRequested == fetch'.requested = fetch.requested + 1 /\ fetch.requested >= 1

\* the step in which the response to the page request arrives
PageAnswered == fetch.pc = "awaiting" /\ fetch' # fetch

\* C30: fetchPublicCommits makes at most 10 page requests; it requests page
\* n+1 only if page n succeeded with exactly 100 commits, and it ends at the
\* first page that is shorter, at the first page that failed, and after
\* page 10; every response either ends the call or is followed by the next
\* of the at most 10 requests, so the call ends after at most 10 responses.
C30_AtMostTenPageRequests ==
    /\ [](fetch.requested <= MaxPages /\ fetch.page <= MaxPages + 1)
    /\ [](fetch.pc = "awaiting" => fetch.requested = fetch.page)
    /\ [][NextPageRequested =>
            /\ fetch.pc = "awaiting"
            /\ fetch'.res.ok
            /\ RunsLength(fetch'.res.body) = perPage
            /\ fetch'.page = fetch.page + 1]_vars
    /\ [][PageAnswered =>
            ((~fetch'.res.ok \/ RunsLength(fetch'.res.body) # perPage
                \/ fetch.page = MaxPages)
             => fetch'.pc \in {"returned", "threw"})]_vars
    /\ [][PageAnswered =>
            (fetch'.pc \in {"returned", "threw"}
             \/ fetch'.requested = fetch.requested + 1)]_vars

\* ten full pages were answered and the call returned without an eleventh
\* request
C30_Witness ==
    /\ fetch.pc = "returned"
    /\ fetch.requested = MaxPages
    /\ fetch.res.ok
    /\ RunsLength(fetch.res.body) = perPage
    /\ RunsLength(fetch.commits) = MaxPages * perPage

=============================================================================
